---- MODULE Spec2Model ----
(***************************************************************************)
(* A model of the symbol engine of anycode:                                *)
(*   - the outline builder  (src/src/features/symbols.ts,                  *)
(*     DocumentSymbolProvider.provideDocumentSymbols),                     *)
(*   - the workspace symbol search and its lazy file index                 *)
(*     (WorkspaceSymbolProvider, WorkspaceIndex),                          *)
(*   - the reference and completion resolvers                              *)
(*     (src/anycode-typescript/fixtures/outline.ts),                       *)
(*   - the file-queue notifications of the client (src/src/client/main.ts).*)
(*                                                                         *)
(* Each part has its own specification over the shared variables:          *)
(* SpecOutline, SpecFuzzy, SpecIndex and SpecSearch.  A specification      *)
(* leaves the variables of the other parts at their idle values.           *)
(***************************************************************************)
EXTENDS Integers, Sequences, FiniteSets, TLC

VARIABLES
    \* ---- outline builder (provideDocumentSymbols) ----
    captures,     \* query.captures(tree.rootNode): the ordered capture list
    ci,           \* number of captures the for-loop has processed
    roots,        \* roots: Node[]   (nodes are capture indices)
    stack,        \* stack: Node[]
    children,     \* Node.children, per node
    ophase,       \* "tree" | "symbols" | "done": position in the handler
    result,       \* result: DocumentSymbol[]
    \* ---- the prefilter of _findWithIndex ----
    search,       \* the query string, a sequence of characters
    source,       \* the text of a workspace file, a sequence of characters
    fphase,       \* "idle" | "start" | "done"
    prefilter,    \* "none" | "skipped" | "accepted" | "rejected"
    \* ---- symbol index, references and completion ----
    disk,          \* the workspace files: content of each, or "absent"
    notifications, \* file/queue/* notifications sent, not yet received
    queue,         \* the file queue of the index: events not yet reconciled
    upd,           \* the running update(): [pc, taken, caller]
    index,         \* per file, the entries it contributed to both mappings
    added,         \* ghost: files for which onFileAdded has been handled
    nevents,       \* number of file-system events so far
    req,           \* the request being served: references or completion
    \* ---- workspace symbol search, file index, symbol queries ----
    data,          \* _symbolQueries._data, per language:
                   \*   "promise" | "query" | "absent"
    langStatus,    \* what the grammar of "typescript" gives:
                   \*   "ok" | "badquery" | "nogrammar"
    fs,            \* the workspace files on disk: per uri the content
    textDocuments, \* vscode.workspace.textDocuments
    all,           \* WorkspaceIndex: the map `all`, Entry._text per uri
    token,         \* the CancellationToken of the search, and (ghost)
                   \* where the search stood when it was cancelled
    ws,            \* provideWorkspaceSymbols: position and locals
    tasks,         \* the per-file tasks of _findWithIndex, per uri
    outl,          \* provideDocumentSymbols: position and locals
    \* ---- the lazy file cache (WorkspaceIndex, Entry) on its own ----
    files,         \* the disk: per uri the content, or "absent"
    watcherEvents, \* file-system events the watcher has not delivered yet
    opened,        \* the uris of vscode.workspace.textDocuments
    allMap,        \* the map `all`: per uri its Entry (an index into
                   \* entryObjs), or 0 when the uri is no key
    entryObjs,     \* the Entry objects made so far: [uri, text] and ghosts
    loadCalls,     \* the load() calls: position, locals and ghosts
    handled,       \* ghost: per uri, the number of the file-system event
                   \* that the last handled change notification reported
    nfs            \* number of file-system events so far

outlineVars == <<captures, ci, roots, stack, children, ophase, result>>
fuzzyVars == <<search, source, fphase, prefilter>>
indexVars == <<disk, notifications, queue, upd, index, added, nevents, req>>

searchVars ==
    <<data, langStatus, fs, textDocuments, all, token, ws, tasks, outl>>

cacheVars ==
    <<files, watcherEvents, opened, allMap, entryObjs, loadCalls, handled,
      nfs>>

vars == <<outlineVars, fuzzyVars, indexVars, searchVars, cacheVars>>

----------------------------------------------------------------------------
(* Bounds of the model *)

MaxPos == 3        \* positions of generated spans range over 0..MaxPos
MaxCaps == 4       \* longest generated well-nested capture sequence
MaxAnyCaps == 2    \* longest generated arbitrary (possibly malformed) sequence
MaxQuery == 2      \* longest generated query
MaxText == 3       \* longest generated file text
NumFiles == 2      \* workspace files of the index model
MaxEvents == 2     \* file-system events in one behaviour
NumCacheUris == 1  \* files of the file cache model
MaxLoads == 2      \* load() calls that can be in flight together
MaxFsEvents == 2   \* file-system events in one behaviour of the cache model
chunkSize == 2     \* files in one batch of _findWithIndex; the program's
                   \* value is 50 (symbols.ts:269), scaled down here

----------------------------------------------------------------------------
(* Idle values: what a part's variables hold while another part runs *)

OutlineIdle ==
    /\ captures = << >>
    /\ ci = 0
    /\ roots = << >>
    /\ stack = << >>
    /\ children = << >>
    /\ ophase = "idle"
    /\ result = << >>

FuzzyIdle ==
    /\ search = << >>
    /\ source = << >>
    /\ fphase = "idle"
    /\ prefilter = "none"

NoRequest ==
    [kind |-> "none", pc |-> "idle", uri |-> 0, position |-> 0,
     includeDeclaration |-> FALSE, text |-> "", usages |-> << >>,
     symbols |-> << >>, result |-> << >>, queued |-> << >>, events |-> 0]

NoUpdate == [pc |-> "idle", taken |-> << >>, caller |-> "none"]

IndexIdle ==
    /\ disk = << >>
    /\ notifications = << >>
    /\ queue = << >>
    /\ upd = NoUpdate
    /\ index = << >>
    /\ added = {}
    /\ nevents = 0
    /\ req = NoRequest

NoJob == [pc |-> "none", q |-> "none", source |-> "undefined"]

NoToken ==
    [isCancellationRequested |-> FALSE,
     at |-> [pc |-> "never", i |-> 0, settled |-> FALSE]]

NoSearch ==
    [pc |-> "idle", value |-> "off", search |-> << >>, di |-> 0,
     job |-> NoJob, allUris |-> << >>, i |-> 0, result |-> << >>,
     outcome |-> "pending", docs |-> << >>]

NoSymbols ==
    [pc |-> "idle", languageId |-> "", tree |-> FALSE, q |-> "none",
     result |-> "pending"]

SearchIdle ==
    /\ data = << >>
    /\ langStatus = "ok"
    /\ fs = << >>
    /\ textDocuments = << >>
    /\ all = << >>
    /\ token = NoToken
    /\ ws = NoSearch
    /\ tasks = << >>
    /\ outl = NoSymbols

NoLoad ==
    [pc |-> "idle", entry |-> 0, large |-> FALSE, content |-> "undefined",
     readAt |-> 0, ret |-> "undefined", fresh |-> TRUE, again |-> FALSE]

CacheIdle ==
    /\ files = << >>
    /\ watcherEvents = << >>
    /\ opened = {}
    /\ allMap = << >>
    /\ entryObjs = << >>
    /\ loadCalls = << >>
    /\ handled = << >>
    /\ nfs = 0

----------------------------------------------------------------------------
(* Ranges.  A vscode.Position is a (line, character) pair ordered          *)
(* lexicographically; the model uses one integer per position, which is    *)
(* the same total order.  A range is <<start, end>>.                       *)

\* asCodeRange(capture.node)
asCodeRange(c) == <<c.start, c.end>>

\* vscode.Range.contains(other), as used at symbols.ts:129 (non-strict)
Contains(outer, inner) == outer[1] <= inner[1] /\ inner[2] <= outer[2]

----------------------------------------------------------------------------
(* Symbol kinds: _symbolKindMapping and getSymbolKind *)

SymbolKindMapping ==
    [file |-> "File", module |-> "Module", namespace |-> "Namespace",
     package |-> "Package", class |-> "Class", method |-> "Method",
     property |-> "Property", field |-> "Field",
     constructor |-> "Constructor", enum |-> "Enum",
     interface |-> "Interface", function |-> "Function",
     variable |-> "Variable", constant |-> "Constant", string |-> "String",
     number |-> "Number", boolean |-> "Boolean", array |-> "Array",
     object |-> "Object", key |-> "Key", null |-> "Null",
     enumMember |-> "EnumMember", struct |-> "Struct", event |-> "Event",
     operator |-> "Operator", typeParameter |-> "TypeParameter"]

\* getSymbolKind(symbolKind): the mapped kind, Variable when there is none
getSymbolKind(label) ==
    IF label \in DOMAIN SymbolKindMapping THEN SymbolKindMapping[label]
    ELSE "Variable"

----------------------------------------------------------------------------
(* Inputs of the outline builder *)

\* capture names of the generated inputs
Labels == {"class", "class.name", "method", "method.name"}

\* capture.node.text of a generated capture: the document text under the span
SpanText(s, e) == "t" \o ToString(s) \o "_" \o ToString(e)

Capture(l, s, e, t) == [name |-> l, start |-> s, end |-> e, text |-> t]

\* Generated spans are non-empty
Spans == {sp \in (0..MaxPos) \X (0..MaxPos) : sp[1] < sp[2]}

CaptureSet ==
    {Capture(l, sp[1], sp[2], SpanText(sp[1], sp[2])) : l \in Labels, sp \in Spans}

\* Document order of two captures (pre-order: an outer span comes first)
Before(a, b) == a.start < b.start \/ (a.start = b.start /\ a.end > b.end)

\* Two captures are disjoint, or the first strictly contains the second
Nested(a, b) ==
    \/ a.end <= b.start
    \/ a.start <= b.start /\ b.end <= a.end /\ <<a.start, a.end>> # <<b.start, b.end>>

\* The well-nestedness invariant of the data model, on an ordered sequence
WellNested(caps) ==
    /\ \A i \in 1..Len(caps) : caps[i].start < caps[i].end
    /\ \A i, j \in 1..Len(caps) :
          i < j => Before(caps[i], caps[j]) /\ Nested(caps[i], caps[j])

RECURSIVE WellNestedSeqs(_)
WellNestedSeqs(n) ==
    IF n = 0 THEN {<< >>}
    ELSE LET prev == WellNestedSeqs(n - 1)
             longest == {s \in prev : Len(s) = n - 1}
         IN  prev \cup
             UNION {{Append(s, c) : c \in {d \in CaptureSet :
                                            WellNested(Append(s, d))}} :
                    s \in longest}

AnySeqs(n) == UNION {[1..k -> CaptureSet] : k \in 0..n}

\* The end-to-end example: class [0,40] named foo with a method [12,30] bar
ExampleCaps ==
    << Capture("class", 0, 40, "class foo { bar() {} }"),
       Capture("class.name", 6, 9, "foo"),
       Capture("method", 12, 30, "bar() {}"),
       Capture("method.name", 16, 19, "bar") >>

----------------------------------------------------------------------------
(* provideDocumentSymbols: the containment stack (symbols.ts:118-137)      *)

Range(node) == asCodeRange(captures[node])

\* The while-loop: pop until the popped parent contains the node or the
\* stack is empty; a containing parent is pushed back.
RECURSIVE Unwind(_, _)
UnwindOnce(stk, node) ==
    IF stk = << >> THEN << >>
    ELSE IF Contains(Range(stk[Len(stk)]), Range(node)) THEN stk
    ELSE SubSeq(stk, 1, Len(stk) - 1)
UnwindNoPop(stk, node) == stk
UnwindAll(stk, node) == << >>
Unwind(stk, node) ==
    IF stk = << >> THEN << >>
    ELSE IF Contains(Range(stk[Len(stk)]), Range(node)) THEN stk
    ELSE Unwind(SubSeq(stk, 1, Len(stk) - 1), node)

\* A loop that makes every node a root, also one that it gives a parent
AttachAlsoAsRoot(kept, node) ==
    /\ roots' = Append(roots, node)
    /\ children' = IF kept = << >> THEN children
                   ELSE [children EXCEPT ![kept[Len(kept)]] = Append(@, node)]

\* Lines 123-132: with no parent left the node joins the roots, else it
\* joins the children of the parent that contains it
Attach(kept, node) ==
    IF kept = << >>
    THEN /\ roots' = Append(roots, node)
         /\ children' = children
    ELSE /\ roots' = roots
         /\ children' = [children EXCEPT ![kept[Len(kept)]] = Append(@, node)]

\* One iteration of `for (const capture of captures)`
ProcessCapture ==
    /\ ophase = "tree"
    /\ ci < Len(captures)
    /\ LET node == ci + 1
           kept == Unwind(stack, node)
       IN  /\ Attach(kept, node)
           /\ stack' = Append(kept, node)
           /\ ci' = node
    /\ UNCHANGED <<captures, ophase, result>>
    /\ UNCHANGED <<fuzzyVars, indexVars, searchVars, cacheVars>>

\* The loop is over
TreeDone ==
    /\ ophase = "tree"
    /\ ci = Len(captures)
    /\ ophase' = "symbols"
    /\ UNCHANGED <<captures, ci, roots, stack, children, result>>
    /\ UNCHANGED <<fuzzyVars, indexVars, searchVars, cacheVars>>

----------------------------------------------------------------------------
(* provideDocumentSymbols: build (symbols.ts:143-160)                      *)

\* child.capture.name === `${node.capture.name}.name`
IsNameChild(node, child) ==
    captures[child].name = captures[node].name \o ".name"

\* Position in node.children of the child that becomes nameNode: the first
\* one that matches (`!nameNode && ...`); 0 when there is none.
NameChildPosLast(node) ==
    LET hits == {k \in 1..Len(children[node]) :
                    IsNameChild(node, children[node][k])}
    IN  IF hits = {} THEN 0 ELSE CHOOSE k \in hits : \A h \in hits : h <= k
NameChildPosNone(node) == 0
NameChildPos(node) ==
    LET hits == {k \in 1..Len(children[node]) :
                    IsNameChild(node, children[node][k])}
    IN  IF hits = {} THEN 0 ELSE CHOOSE k \in hits : \A h \in hits : k <= h

\* nameNode: the name child, or the node itself (`if (!nameNode)`)
NameNode(node) ==
    IF NameChildPos(node) = 0 THEN node
    ELSE children[node][NameChildPos(node)]

\* The children that go through build(child, children), in order
BuiltChildren(node) ==
    LET p == NameChildPos(node)
    IN  SubSeq(children[node], 1, p - 1) \o
        SubSeq(children[node], p + 1, Len(children[node]))

\* build(node, bucket) pushes one DocumentSymbol; `node` is a ghost field
\* naming the capture the symbol was built from (it is `detail`-free data
\* of the model only).
RECURSIVE Build(_)
BuildAll(nodes) == [k \in 1..Len(nodes) |-> Build(nodes[k])]
Build(node) ==
    [name |-> captures[NameNode(node)].text,
     kind |-> getSymbolKind(captures[node].name),
     range |-> Range(node),
     selectionRange |-> Range(NameNode(node)),
     children |-> BuildAll(BuiltChildren(node)),
     node |-> node]

\* `for (let node of roots) build(node, result)` and the return
MakeSymbols ==
    /\ ophase = "symbols"
    /\ result' = BuildAll(roots)
    /\ ophase' = "done"
    /\ UNCHANGED <<captures, ci, roots, stack, children>>
    /\ UNCHANGED <<fuzzyVars, indexVars, searchVars, cacheVars>>

----------------------------------------------------------------------------
(* The prefilter of the workspace search (symbols.ts:250-264, 278).        *)
(* Strings are sequences of one-character strings.                         *)

Str_fb == <<"f", "b">>
Str_fooBar == <<"f", "o", "o", "B", "a", "r">>
Str_foo_bar == <<"f", "o", "o", "_", "b", "a", "r">>
Str_abcfb == <<"a", "b", "c", "f", "b">>

\* Characters of the generated queries: letters, and characters that mean
\* something else than themselves inside a regular expression
QueryChars == {"f", "b", "F", ".", "$", "("}
\* Characters of the generated file texts
TextChars == {"f", "b", "x", "_", " ", "."}

StringsUpTo(chars, n) == UNION {[1..k -> chars] : k \in 0..n}

\* \w of a regular expression, on the characters in use
IsWord(c) == c \in {"a", "b", "c", "f", "o", "r", "x", "B", "F", "_"}
\* \s
IsSpace(c) == c = " "
\* case folding of the `i` flag
Lower(c) == CASE c = "B" -> "b" [] c = "F" -> "f" [] OTHER -> c

\* /\w{1,}/.test(search)
HasWordChar(str) == \E k \in 1..Len(str) : IsWord(str[k])

\* new RegExp(pattern, 'i') throws on a pattern that is no regular
\* expression; of the characters in use an unbalanced "(" makes it throw.
PatternCompiles(str) == \A k \in 1..Len(str) : str[k] # "("

\* What the query character ch, copied into the pattern as it is, matches
\* at one character c: "." is the wildcard, any other character itself
AtomMatches(ch, c) == IF ch = "." THEN c # "\n" ELSE Lower(ch) = Lower(c)

\* The pattern `${c1}\w*${c2}\w*...` from its k-th character on, matched
\* at position pos of text.  "$" is the end-of-input assertion.
RECURSIVE MatchFrom(_, _, _, _)
MatchFrom(str, text, k, pos) ==
    IF k > Len(str) THEN TRUE
    ELSE IF str[k] = "$"
         THEN pos = Len(text) + 1 /\ MatchFrom(str, text, k + 1, pos)
    ELSE /\ pos <= Len(text)
         /\ AtomMatches(str[k], text[pos])
         /\ \E j \in 0..(Len(text) - pos) :
               /\ \A m \in 1..j : IsWord(text[pos + m])
               /\ MatchFrom(str, text, k + 1, pos + 1 + j)

\* regexp.test(source) for pattern (^|[\s_-]) followed by the above
RegexpTest(str, text) ==
    \E p \in 1..(Len(text) + 1) :
        /\ \/ p = 1
           \/ IsSpace(text[p - 1]) \/ text[p - 1] = "_" \/ text[p - 1] = "-"
        /\ MatchFrom(str, text, 1, p)

\* The start of _findWithIndex and the test of one file's text: no regexp
\* is made of a query without a word character or of a pattern that does
\* not compile.
TestPrefilter ==
    /\ fphase = "start"
    /\ prefilter' = IF ~HasWordChar(search) THEN "skipped"
                    ELSE IF ~PatternCompiles(search) THEN "skipped"
                    ELSE IF RegexpTest(search, source) THEN "accepted"
                    ELSE "rejected"
    /\ fphase' = "done"
    /\ UNCHANGED <<search, source>>
    /\ UNCHANGED <<outlineVars, indexVars, searchVars, cacheVars>>

FuzzyInit ==
    /\ search \in StringsUpTo(QueryChars, MaxQuery)
    /\ source \in StringsUpTo(TextChars, MaxText)
                     \cup {Str_fooBar, Str_foo_bar, Str_abcfb}
    /\ fphase = "start"
    /\ prefilter = "none"
    /\ OutlineIdle
    /\ IndexIdle
    /\ SearchIdle
    /\ CacheIdle

FuzzyNext == TestPrefilter

SpecFuzzy == FuzzyInit /\ [][FuzzyNext]_vars

----------------------------------------------------------------------------
(* The workspace files of the index model and what they contribute.        *)
(* A content is what the Span Matcher finds in a file's text: definition   *)
(* and usage occurrences (name, kind, range) and the identifier captures.  *)

Files == 1..NumFiles

Occ(n, k, r) == [name |-> n, kind |-> k, range |-> r]

ContentIds == {"A", "B", "C"}

ContentDefs(c) ==
    CASE c = "A" -> << Occ("foo", "Function", <<0, 3>>) >>
      [] c = "B" -> << >>
      [] c = "C" -> << Occ("foo", "Struct", <<0, 3>>),
                       Occ("bar", "Class", <<5, 8>>) >>
      [] OTHER -> << >>

\* a usage whose kind could not be determined has kind "undefined"
ContentUses(c) ==
    CASE c = "A" -> << Occ("foo", "Function", <<5, 8>>) >>
      [] c = "B" -> << Occ("foo", "Variable", <<0, 3>>),
                       Occ("foo", "undefined", <<5, 8>>) >>
      [] c = "C" -> << Occ("foo", "Variable", <<0, 3>>) >>
      [] OTHER -> << >>

\* texts of the captures of the `identifiers` query, in document order
ContentIdentifiers(c) ==
    CASE c = "A" -> << "foo", "foo" >>
      [] c = "B" -> << "foo", "foo", "baz" >>
      [] c = "C" -> << "foo", "bar", "baz" >>
      [] OTHER -> << >>

Names == {"foo", "bar", "baz"}

\* cursor positions of the requests: inside <<0,3>>, between the two
\* identifiers, inside <<5,8>>, and past the end of the document
Positions == {1, 4, 6, 9}

Entry(f, o) ==
    [name |-> o.name, kind |-> o.kind,
     location |-> [uri |-> f, range |-> o.range]]

\* The entries file f contributes when its content is c ("absent": none)
Contributed(f, c) ==
    [defs |-> [k \in 1..Len(ContentDefs(c)) |-> Entry(f, ContentDefs(c)[k])],
     uses |-> [k \in 1..Len(ContentUses(c)) |-> Entry(f, ContentUses(c)[k])]]

----------------------------------------------------------------------------
(* The file watcher of the client (main.ts:54-58): each file-system event  *)
(* sends one notification to the server.                                   *)

\* A watcher whose create and delete callbacks are exchanged
NotificationForSwapped(event) ==
    CASE event = "create" -> "file/queue/remove"
      [] event = "delete" -> "file/queue/add"
      [] event = "change" -> "file/queue/update"

\* watcher.onDidCreate / onDidDelete / onDidChange (main.ts:56-58)
NotificationFor(event) ==
    CASE event = "create" -> "file/queue/add"
      [] event = "delete" -> "file/queue/remove"
      [] event = "change" -> "file/queue/update"

\* client.sendNotification(method, [uri.toString()])
Send(event, f) ==
    notifications' =
        Append(notifications, [method |-> NotificationFor(event), uri |-> f])

\* A file appears: watcher.onDidCreate
FsCreate ==
    /\ nevents < MaxEvents
    /\ \E f \in Files, c \in ContentIds :
          /\ disk[f] = "absent"
          /\ disk' = [disk EXCEPT ![f] = c]
          /\ Send("create", f)
    /\ nevents' = nevents + 1
    /\ UNCHANGED <<queue, upd, index, added, req>>
    /\ UNCHANGED <<outlineVars, fuzzyVars, searchVars, cacheVars>>

\* A file disappears: watcher.onDidDelete
FsDelete ==
    /\ nevents < MaxEvents
    /\ \E f \in Files :
          /\ disk[f] # "absent"
          /\ disk' = [disk EXCEPT ![f] = "absent"]
          /\ Send("delete", f)
    /\ nevents' = nevents + 1
    /\ UNCHANGED <<queue, upd, index, added, req>>
    /\ UNCHANGED <<outlineVars, fuzzyVars, searchVars, cacheVars>>

\* A file is rewritten: watcher.onDidChange
FsChange ==
    /\ nevents < MaxEvents
    /\ \E f \in Files, c \in ContentIds :
          /\ disk[f] # "absent"
          /\ disk[f] # c
          /\ disk' = [disk EXCEPT ![f] = c]
          /\ Send("change", f)
    /\ nevents' = nevents + 1
    /\ UNCHANGED <<queue, upd, index, added, req>>
    /\ UNCHANGED <<outlineVars, fuzzyVars, searchVars, cacheVars>>

----------------------------------------------------------------------------
(* The symbol index of the server.  Its code is not among the sources; it  *)
(* is modelled from the design: notifications accumulate as events in the  *)
(* file queue, and update() reconciles the index against the queue.        *)

\* onFileAdded / onFileRemoved / onFileUpdated: the event joins the queue
QueueOp(method) ==
    CASE method = "file/queue/add" -> "add"
      [] method = "file/queue/remove" -> "remove"
      [] method = "file/queue/update" -> "update"

Deliver ==
    /\ notifications # << >>
    /\ LET n == Head(notifications)
       IN  /\ queue' = Append(queue, [op |-> QueueOp(n.method), uri |-> n.uri])
           /\ added' = IF QueueOp(n.method) = "add" THEN added \cup {n.uri}
                       ELSE added
    /\ notifications' = Tail(notifications)
    /\ UNCHANGED <<disk, upd, index, nevents, req>>
    /\ UNCHANGED <<outlineVars, fuzzyVars, searchVars, cacheVars>>

\* update() starts: it takes the events accumulated since the last one
StartUpdate(caller) ==
    /\ upd.pc = "idle"
    /\ upd' = [pc |-> "running", taken |-> queue, caller |-> caller]
    /\ queue' = << >>

\* update() called through the maintenance hook
UpdateHook ==
    /\ req.pc # "update"
    /\ queue # << >>
    /\ StartUpdate("hook")
    /\ UNCHANGED <<disk, notifications, index, added, nevents, req>>
    /\ UNCHANGED <<outlineVars, fuzzyVars, searchVars, cacheVars>>

\* The entries of one file after reconciling one event: a removed file
\* contributes nothing, an added or updated file is read (file/read,
\* main.ts:61-72) and matched again.
Reconciled(e) ==
    IF e.op = "remove" THEN Contributed(e.uri, "absent")
    ELSE Contributed(e.uri, disk[e.uri])

\* update() reconciles one event; the file's entries are replaced at once
UpdateStep ==
    /\ upd.pc = "running"
    /\ upd.taken # << >>
    /\ LET e == Head(upd.taken)
       IN  index' = [index EXCEPT ![e.uri] = Reconciled(e)]
    /\ upd' = [upd EXCEPT !.taken = Tail(@)]
    /\ UNCHANGED <<disk, notifications, queue, added, nevents, req>>
    /\ UNCHANGED <<outlineVars, fuzzyVars, searchVars, cacheVars>>

\* update() completes; a references request that awaits it goes on
UpdateEnd ==
    /\ upd.pc = "running"
    /\ upd.taken = << >>
    /\ upd' = NoUpdate
    /\ req' = IF upd.caller = "references" THEN [req EXCEPT !.pc = "gather"]
              ELSE req
    /\ UNCHANGED <<disk, notifications, queue, index, added, nevents>>
    /\ UNCHANGED <<outlineVars, fuzzyVars, searchVars, cacheVars>>

RECURSIVE Concat(_)
Concat(seqs) == IF seqs = << >> THEN << >> ELSE Head(seqs) \o Concat(Tail(seqs))

SelectName(entries, n) == SelectSeq(entries, LAMBDA e : e.name = n)

\* lookupUsages(name) and lookupDefinitions(name): the current entries
lookupUsages(n) == Concat([f \in Files |-> SelectName(index[f].uses, n)])
lookupDefinitions(n) == Concat([f \in Files |-> SelectName(index[f].defs, n)])

----------------------------------------------------------------------------
(* ReferencesProvider.provideReferences (outline.ts:128-191)               *)

\* containsLocation(location, uri, position), of the server's common module
containsLocation(loc, uri, pos) ==
    loc.uri = uri /\ loc.range[1] <= pos /\ pos <= loc.range[2]

\* nodeAtPosition(tree.rootNode, position).text: the identifier under the
\* cursor; the whole document's text when the cursor is on no identifier;
\* "undefined" (no node) when the position is outside the document.
NodeText(c, pos) ==
    LET occs == ContentDefs(c) \o ContentUses(c)
        hits == {k \in 1..Len(occs) :
                    occs[k].range[1] <= pos /\ pos <= occs[k].range[2]}
    IN  IF hits # {} THEN occs[CHOOSE k \in hits : TRUE].name
        ELSE IF pos <= 8 THEN "#document"
        ELSE "undefined"

\* locationsByKind: a Map, kept as the sequence of its [key, locs] entries
\* in insertion order
BucketKey(kind) == IF kind = "undefined" THEN "-1" ELSE kind

BucketGet(buckets, key) ==
    LET hits == {i \in 1..Len(buckets) : buckets[i].key = key}
    IN  IF hits = {} THEN << >> ELSE buckets[CHOOSE i \in hits : TRUE].locs

\* A Map that lists a new key before the keys it already holds
BucketPushFront(buckets, key, loc) ==
    LET hits == {i \in 1..Len(buckets) : buckets[i].key = key}
    IN  IF hits = {} THEN <<[key |-> key, locs |-> <<loc>>]>> \o buckets
        ELSE [buckets EXCEPT ![CHOOSE i \in hits : TRUE].locs = Append(@, loc)]

BucketPush(buckets, key, loc) ==
    LET hits == {i \in 1..Len(buckets) : buckets[i].key = key}
    IN  IF hits = {} THEN Append(buckets, [key |-> key, locs |-> <<loc>>])
        ELSE [buckets EXCEPT ![CHOOSE i \in hits : TRUE].locs = Append(@, loc)]

RECURSIVE BucketAll(_, _)
BucketAll(buckets, entries) ==
    IF entries = << >> THEN buckets
    ELSE BucketAll(BucketPush(buckets, BucketKey(Head(entries).kind),
                              Head(entries).location),
                   Tail(entries))

\* thisKind: set once, by the first scanned entry that contains the cursor
\* and has a kind; usages are scanned before definitions
ThisKindDefsFirst(usages, symbols, uri, pos) ==
    LET scan == symbols \o usages
        hits == {k \in 1..Len(scan) :
                    /\ containsLocation(scan[k].location, uri, pos)
                    /\ scan[k].kind # "undefined"}
    IN  IF hits = {} THEN "undefined"
        ELSE scan[CHOOSE k \in hits : \A h \in hits : k <= h].kind
ThisKind(usages, symbols, uri, pos) ==
    LET scan == usages \o symbols
        hits == {k \in 1..Len(scan) :
                    /\ containsLocation(scan[k].location, uri, pos)
                    /\ scan[k].kind # "undefined"}
    IN  IF hits = {} THEN "undefined"
        ELSE scan[CHOOSE k \in hits : \A h \in hits : k <= h].kind

\* The value returned once update() has completed (lines 141-190)
ReferencesAllBuckets(text, uri, pos, incl) ==
    LET usages == lookupUsages(text)
        symbols == lookupDefinitions(text)
        buckets == BucketAll(BucketAll(<< >>, usages),
                             IF incl THEN symbols ELSE << >>)
    IN  Concat([i \in 1..Len(buckets) |-> buckets[i].locs])
\* A resolver that buckets the definitions whatever the flag says
ReferencesWithDeclarations(text, uri, pos, incl) ==
    LET usages == lookupUsages(text)
        symbols == lookupDefinitions(text)
        buckets == BucketAll(BucketAll(<< >>, usages), symbols)
        thisKind == ThisKind(usages, symbols, uri, pos)
    IN  IF usages = << >> /\ symbols = << >> THEN << >>
        ELSE IF thisKind = "undefined"
             THEN Concat([i \in 1..Len(buckets) |-> buckets[i].locs])
        ELSE BucketGet(buckets, thisKind) \o BucketGet(buckets, "-1")
References(text, uri, pos, incl) ==
    LET usages == lookupUsages(text)
        symbols == lookupDefinitions(text)
        buckets == BucketAll(BucketAll(<< >>, usages),
                             IF incl THEN symbols ELSE << >>)
        thisKind == ThisKind(usages, symbols, uri, pos)
    IN  IF usages = << >> /\ symbols = << >> THEN << >>
        ELSE IF thisKind = "undefined"
             THEN Concat([i \in 1..Len(buckets) |-> buckets[i].locs])
        ELSE BucketGet(buckets, thisKind) \o BucketGet(buckets, "-1")

\* A handler that goes on to read the index without calling update()
ReadWithoutUpdate(r) ==
    /\ req' = [r EXCEPT !.pc = "gather"]
    /\ UNCHANGED <<upd, queue>>

\* await this._symbols.update() (lines 139-140): the handler is suspended
\* until the update it started has completed
AwaitUpdate(r) ==
    /\ req' = r
    /\ StartUpdate("references")

\* The request arrives: document, tree and node are looked up, and
\* update() is called and awaited (lines 129-140).  queued and events
\* record the file queue and the number of file-system events at that
\* moment.
RefBegin ==
    /\ req.kind = "none"
    /\ upd.pc = "idle"
    /\ \E uri \in Files, pos \in Positions, incl \in BOOLEAN, tree \in BOOLEAN :
          /\ disk[uri] # "absent"
          /\ LET text == NodeText(disk[uri], pos)
                 r == [kind |-> "references", pc |-> "update", uri |-> uri,
                       position |-> pos, includeDeclaration |-> incl,
                       text |-> text, usages |-> << >>, symbols |-> << >>,
                       result |-> << >>, queued |-> queue, events |-> nevents]
             IN  IF ~tree \/ text = "undefined"
                 THEN /\ req' = [r EXCEPT !.pc = "done"]
                      /\ UNCHANGED <<upd, queue>>
                 ELSE AwaitUpdate(r)
    /\ UNCHANGED <<disk, notifications, index, added, nevents>>
    /\ UNCHANGED <<outlineVars, fuzzyVars, searchVars, cacheVars>>

\* update() has completed: gather, bucket and return (lines 141-190)
RefGather ==
    /\ req.kind = "references"
    /\ req.pc = "gather"
    /\ req' = [req EXCEPT
                  !.pc = "done",
                  !.usages = lookupUsages(req.text),
                  !.symbols = lookupDefinitions(req.text),
                  !.result = References(req.text, req.uri, req.position,
                                        req.includeDeclaration)]
    /\ UNCHANGED <<disk, notifications, queue, upd, index, added, nevents>>
    /\ UNCHANGED <<outlineVars, fuzzyVars, searchVars, cacheVars>>

----------------------------------------------------------------------------
(* CompletionItemProvider.provideCompletionItems (outline.ts:55-88)        *)

\* _kindMapping: lsp.SymbolKind -> lsp.CompletionItemKind
KindMapping ==
    [Class |-> "CompletionItemKind.Class",
     Interface |-> "CompletionItemKind.Interface",
     Field |-> "CompletionItemKind.Field",
     Property |-> "CompletionItemKind.Property",
     Event |-> "CompletionItemKind.Event",
     Constructor |-> "CompletionItemKind.Constructor",
     Method |-> "CompletionItemKind.Method",
     Enum |-> "CompletionItemKind.Enum",
     EnumMember |-> "CompletionItemKind.EnumMember",
     Function |-> "CompletionItemKind.Function",
     Variable |-> "CompletionItemKind.Variable"]

\* _kindMapping.get(firstKind)
KindMappingGet(kind) ==
    IF kind \in DOMAIN KindMapping THEN KindMapping[kind] ELSE "undefined"

\* result: a Map from text to item, kept as the sequence of its values in
\* insertion order; set() on a present key replaces the value in place
MapSet(items, item) ==
    LET hits == {i \in 1..Len(items) : items[i].label = item.label}
    IN  IF hits = {} THEN Append(items, item)
        ELSE [items EXCEPT ![CHOOSE i \in hits : TRUE] = item]

RECURSIVE SetLocals(_, _)
SetLocals(items, texts) ==
    IF texts = << >> THEN items
    ELSE SetLocals(MapSet(items, [label |-> Head(texts), kind |-> "undefined"]),
                   Tail(texts))

\* the keys of this._symbols.definitions, in the order of the Map
DefinedNames ==
    SelectSeq(<<"foo", "bar", "baz">>, LAMBDA n : lookupDefinitions(n) # << >>)

RECURSIVE SetDefinitions(_, _)
SetDefinitions(items, names) ==
    IF names = << >> THEN items
    ELSE SetDefinitions(
             MapSet(items,
                    [label |-> Head(names),
                     kind |-> KindMappingGet(lookupDefinitions(Head(names))[1].kind)]),
             Tail(names))

\* Array.from(result.values())
Completions(c) == SetDefinitions(SetLocals(<< >>, ContentIdentifiers(c)), DefinedNames)

\* The whole handler: it does not await update()
Complete ==
    /\ req.kind = "none"
    /\ \E uri \in Files, tree \in BOOLEAN :
          /\ disk[uri] # "absent"
          /\ req' = [NoRequest EXCEPT
                        !.kind = "completion", !.pc = "done", !.uri = uri,
                        !.result = IF tree THEN Completions(disk[uri]) ELSE << >>]
    /\ UNCHANGED <<disk, notifications, queue, upd, index, added, nevents>>
    /\ UNCHANGED <<outlineVars, fuzzyVars, searchVars, cacheVars>>

\* The response is sent; the next request may come
Respond ==
    /\ req.pc = "done"
    /\ req' = NoRequest
    /\ UNCHANGED <<disk, notifications, queue, upd, index, added, nevents>>
    /\ UNCHANGED <<outlineVars, fuzzyVars, searchVars, cacheVars>>

----------------------------------------------------------------------------
(* The index specification *)

\* At start the index holds what file/queue/init (main.ts:44-48) made it
\* read: the files of the workspace as they are.
IndexInit ==
    /\ disk \in [Files -> ContentIds \cup {"absent"}]
    /\ notifications = << >>
    /\ queue = << >>
    /\ upd = NoUpdate
    /\ index = [f \in Files |-> Contributed(f, disk[f])]
    /\ added = {}
    /\ nevents = 0
    /\ req = NoRequest
    /\ OutlineIdle
    /\ FuzzyIdle
    /\ SearchIdle
    /\ CacheIdle

IndexNext ==
    \/ FsCreate
    \/ FsDelete
    \/ FsChange
    \/ Deliver
    \/ UpdateHook
    \/ UpdateStep
    \/ UpdateEnd
    \/ RefBegin
    \/ RefGather
    \/ Complete
    \/ Respond

SpecIndex == IndexInit /\ [][IndexNext]_vars

----------------------------------------------------------------------------
(* The symbol queries (symbols.ts:10-79).  Of the nine registered          *)
(* languages the model keeps "typescript"; "javascript" stands for a       *)
(* language id that is not a key of _data.                                 *)

Languages == {"typescript", "javascript"}

\* _data as constructed (symbols.ts:12-22): every registered language
\* holds the promise of its query source
InitialData ==
    [l \in Languages |-> IF l = "typescript" THEN "promise" ELSE "absent"]

\* isSupported(languageId): this._data.has(languageId)
isSupported(languageId) == data[languageId] # "absent"

\* _disabledSchemes and isInteresting (common.ts:38-42)
isInteresting(document) == document.scheme \notin {"git", "vsls"}

\* this._trees.getParseTree(document, token): whether a tree comes back.
\* The tree store is a collaborator: it has no tree for a language without
\* grammar, it may give up on a cancelled token, and for a language
\* outside the symbol queries either outcome is possible.
ParseTrees(languageId, cancelled) ==
    IF languageId # "typescript" THEN {TRUE, FALSE}
    ELSE IF langStatus = "nogrammar" THEN {FALSE}
    ELSE IF cancelled THEN {TRUE, FALSE}
    ELSE {TRUE}

\* get(), lines 62-63 and 73: what is read from _data; a promise is
\* awaited, anything else is returned as it is (undefined when absent)
GetBegin(languageId) ==
    IF data[languageId] = "promise"
    THEN [pc |-> "import", q |-> "none"]
    ELSE [pc |-> "query", q |-> data[languageId]]

\* get() without its try/catch: the failure of language.query propagates
GetCompiledNoCatch(languageId) ==
    IF langStatus = "badquery"
    THEN [pc |-> "raised", q |-> "absent", data |-> "promise"]
    ELSE [pc |-> "query", q |-> "query", data |-> "query"]

\* get(), lines 64-71: language.query(...) of the awaited source; a query
\* that does not compile is caught, and the language is deleted from _data
GetCompiled(languageId) ==
    IF langStatus = "badquery"
    THEN [pc |-> "query", q |-> "absent", data |-> "absent"]
    ELSE [pc |-> "query", q |-> "query", data |-> "query"]

----------------------------------------------------------------------------
(* Documents and file contents of the search model.  A content is a text   *)
(* together with the captures the symbol query finds in it.                *)

\* Workspace files found by findFiles; uri 0 is the one a document may be
\* open for.  There are enough files for three batches either way.
IndexedUris == 0..(2 * chunkSize + 1)

\* "M": a class fooBar; "N": a class x; "H": a name capture with no capture
\* before it; "L": a file of more than 1 MiB; "Z": the empty text
Contents == {"M", "N", "H", "L"}

Source(c) ==
    CASE c = "M" -> <<"x", " ">> \o Str_fooBar
      [] c = "N" -> <<"x">>
      [] c = "H" -> Str_fooBar
      [] OTHER -> << >>

QueryCaptures(c) ==
    CASE c = "M" -> <<[name |-> "class", text |-> Str_fooBar],
                      [name |-> "class.name", text |-> Str_fooBar]>>
      [] c = "N" -> <<[name |-> "class", text |-> <<"x">>],
                      [name |-> "class.name", text |-> <<"x">>]>>
      [] c = "H" -> <<[name |-> "class.name", text |-> Str_fooBar]>>
      [] OTHER -> << >>

FileDoc(c) ==
    [uri |-> 0, scheme |-> "file", languageId |-> "typescript", content |-> c]

UntitledDoc ==
    [uri |-> -1, scheme |-> "untitled", languageId |-> "javascript",
     content |-> "M"]

GitDoc ==
    [uri |-> -2, scheme |-> "git", languageId |-> "typescript",
     content |-> "M"]

\* The open documents of a behaviour
DocumentLists ==
    {<< >>, <<FileDoc("M")>>, <<FileDoc("H")>>,
     <<UntitledDoc, GitDoc, FileDoc("M")>>}

\* The disk of a behaviour: classes fooBar everywhere, but for one file
DiskConfigs ==
    {[f \in IndexedUris |-> IF f = k THEN c ELSE "M"] :
        k \in {1, chunkSize + 1}, c \in Contents}

\* languageMapping and symbols.ts:281-293: every indexed file has a suffix
\* of a registered language; the document handed to _collectMatches
EntryDoc(uri, text) ==
    [uri |-> uri, scheme |-> "file", languageId |-> "typescript",
     content |-> text]

Modes == {"off", "documents", "workspace"}

Searches == {Str_fb, << >>, <<"f", "(">>}

----------------------------------------------------------------------------
(* _collectMatches (symbols.ts:213-247)                                    *)

\* matchesFuzzy(search, text): every character of the query appears in the
\* text, in order, compared without case
RECURSIVE matchesFuzzy(_, _)
matchesFuzzy(str, text) ==
    IF str = << >> THEN TRUE
    ELSE IF text = << >> THEN FALSE
    ELSE IF Lower(Head(str)) = Lower(Head(text))
         THEN matchesFuzzy(Tail(str), Tail(text))
         ELSE matchesFuzzy(str, Tail(text))

\* capture.name.endsWith('.name'), on the labels in use
EndsWithName(label) == label \in {"class.name", "method.name"}

\* capture.name.startsWith(prefix), on the labels in use
StartsWith(label, prefix) == label = prefix \/ label = prefix \o ".name"

\* The forEach of lines 228-246 from the k-th capture on: the symbols
\* pushed, and whether it raised.  The container candidate of the first
\* capture is array[-1], undefined, and reading its name throws.
RECURSIVE ForEachCapture(_, _, _, _)
ForEachCapture(str, document, k, bucket) ==
    LET array == QueryCaptures(document.content)
    IN  IF k > Len(array) THEN [raised |-> FALSE, symbols |-> bucket]
        ELSE IF ~EndsWithName(array[k].name)
             THEN ForEachCapture(str, document, k + 1, bucket)
        ELSE IF ~(Len(str) = 0 \/ matchesFuzzy(str, array[k].text))
             THEN ForEachCapture(str, document, k + 1, bucket)
        ELSE IF k = 1 THEN [raised |-> TRUE, symbols |-> bucket]
        ELSE LET containerCandidate == array[k - 1]
                 symbol ==
                    IF StartsWith(array[k].name, containerCandidate.name)
                    THEN [name |-> array[k].text,
                          kind |-> getSymbolKind(containerCandidate.name),
                          containerName |-> containerCandidate.name,
                          uri |-> document.uri]
                    ELSE [name |-> array[k].text, kind |-> "Struct",
                          containerName |-> "", uri |-> document.uri]
             IN  ForEachCapture(str, document, k + 1, Append(bucket, symbol))

JobDone == [NoJob EXCEPT !.pc = "done"]

\* _collectMatches up to its first await (lines 214-217)
CollectBegin(document) ==
    IF ~isInteresting(document) \/ ~isSupported(document.languageId)
    THEN JobDone
    ELSE [NoJob EXCEPT !.pc = "tree"]

\* One step of a _collectMatches call, from one await to the next: the
\* job after it, _data after it, and the symbols pushed to the bucket
CollectSteps(job, document, str, cancelled) ==
    CASE job.pc = "tree" ->
           {[job |-> IF t THEN [job EXCEPT
                                  !.pc = GetBegin(document.languageId).pc,
                                  !.q = GetBegin(document.languageId).q]
                     ELSE [job EXCEPT !.pc = "done"],
             data |-> data, push |-> << >>] :
               t \in ParseTrees(document.languageId, cancelled)}
      [] job.pc = "import" ->
           LET c == GetCompiled(document.languageId)
           IN  {[job |-> [job EXCEPT !.pc = c.pc, !.q = c.q],
                 data |-> [data EXCEPT ![document.languageId] = c.data],
                 push |-> << >>]}
      [] job.pc = "query" ->
           IF job.q # "query"
           THEN {[job |-> [job EXCEPT !.pc = "done"], data |-> data,
                  push |-> << >>]}
           ELSE LET r == ForEachCapture(str, document, 1, << >>)
                IN  {[job |-> [job EXCEPT !.pc = IF r.raised THEN "raised"
                                                 ELSE "done"],
                      data |-> data, push |-> r.symbols]}
      [] OTHER -> {}

----------------------------------------------------------------------------
(* provideWorkspaceSymbols (symbols.ts:183-211) and _findWithIndex         *)
(* (symbols.ts:249-298)                                                    *)

\* The handler returns: the list, undefined, or the rejection of a call
Return(w, outcome) == [w EXCEPT !.pc = "done", !.outcome = outcome,
                                !.job = NoJob]

\* Lines 204-210 and 249-267: the workspace part up to `await this._index`
FindWithIndex(w) ==
    IF w.value # "workspace" THEN Return(w, "list")
    ELSE IF ~HasWordChar(w.search) THEN Return(w, "list")
    ELSE IF ~PatternCompiles(w.search) THEN Return(w, "list")
    ELSE [w EXCEPT !.pc = "index", !.job = NoJob]

\* Lines 195-196: the k-th open document, or the end of the loop.  The
\* loop goes through the array that vscode.workspace.textDocuments gave
\* when it began (w.docs).
DocLoop(w, k) ==
    IF k > Len(w.docs) THEN FindWithIndex(w)
    ELSE [w EXCEPT !.pc = "docs", !.di = k,
                   !.job = CollectBegin(w.docs[k])]

\* all() (lines 358-366): the indexed uris without those of open documents
AllUris ==
    LET exclude == {textDocuments[k].uri : k \in 1..Len(textDocuments)}
        NotOpen(u) == u \notin exclude
    IN  SelectSeq([k \in 1..Cardinality(IndexedUris) |-> k - 1], NotOpen)

\* allUris.slice(i, i + chunkSize), as a set
Chunk(allUris, i) ==
    {allUris[k] : k \in {j \in 1..Len(allUris) : i < j /\ j <= i + chunkSize}}

\* A loop of _findWithIndex that never looks at the token
BatchCancelledNever == FALSE

\* token.isCancellationRequested at the head of the batch loop (line 272)
BatchCancelled == token.isCancellationRequested

\* entry.load() up to its first await (lines 329-331): a text that is
\* undefined or empty is read again
LoadBegin(uri) ==
    IF all[uri] \in {"undefined", "Z"}
    THEN [NoJob EXCEPT !.pc = "stat"]
    ELSE [NoJob EXCEPT !.pc = "loaded"]

\* The head of the batch loop (lines 271-294) for the chunk at i: the
\* search returns, or the tasks of the chunk start loading
LoopHead(w, i) ==
    IF i >= Len(w.allUris) \/ BatchCancelled
    THEN [ws |-> Return(w, "list"), tasks |-> tasks]
    ELSE [ws |-> [w EXCEPT !.pc = "batch", !.i = i],
          tasks |-> [f \in IndexedUris |->
                        IF f \in Chunk(w.allUris, i) THEN LoadBegin(f)
                        ELSE tasks[f]]]

StartSearch ==
    /\ ws.pc = "idle"
    /\ ws' = IF ws.value = "off" THEN Return(ws, "list")
             ELSE DocLoop([ws EXCEPT !.docs = textDocuments], 1)
    /\ UNCHANGED <<data, langStatus, fs, textDocuments, all, token,
                   tasks, outl>>
    /\ UNCHANGED <<outlineVars, fuzzyVars, indexVars, cacheVars>>

\* _collectMatches of the open document at hand proceeds
DocStep ==
    /\ ws.pc = "docs"
    /\ \E o \in CollectSteps(ws.job, ws.docs[ws.di], ws.search,
                             token.isCancellationRequested) :
          /\ ws' = [ws EXCEPT !.job = o.job, !.result = @ \o o.push]
          /\ data' = o.data
    /\ UNCHANGED <<langStatus, fs, textDocuments, all, token, tasks, outl>>
    /\ UNCHANGED <<outlineVars, fuzzyVars, indexVars, cacheVars>>

\* A document loop that hands back what it has accumulated
ReturnAccumulated(w) == Return(w, "list")

\* Line 198: return undefined
ReturnUndefined(w) == Return(w, "undefined")

\* Lines 196-200: the await of _collectMatches resumes
DocNext ==
    /\ ws.pc = "docs"
    /\ ws.job.pc \in {"done", "raised"}
    /\ ws' = IF ws.job.pc = "raised" THEN Return(ws, "raised")
             ELSE IF token.isCancellationRequested
                  THEN ReturnUndefined(ws)
             ELSE DocLoop(ws, ws.di + 1)
    /\ UNCHANGED <<data, langStatus, fs, textDocuments, all, token,
                   tasks, outl>>
    /\ UNCHANGED <<outlineVars, fuzzyVars, indexVars, cacheVars>>

\* Line 270: the index is there; its uris are listed and the loop begins
IndexReady ==
    /\ ws.pc = "index"
    /\ LET next == LoopHead([ws EXCEPT !.allUris = AllUris], 0)
       IN  /\ ws' = next.ws
           /\ tasks' = next.tasks
    /\ UNCHANGED <<data, langStatus, fs, textDocuments, all, token, outl>>
    /\ UNCHANGED <<outlineVars, fuzzyVars, indexVars, cacheVars>>

\* fs.stat resolves (lines 331-335)
TaskStat(f) ==
    /\ tasks[f].pc = "stat"
    /\ IF fs[f] = "L"
       THEN /\ all' = [all EXCEPT ![f] = "Z"]
            /\ tasks' = [tasks EXCEPT ![f].pc = "loaded"]
       ELSE /\ tasks' = [tasks EXCEPT ![f].pc = "read"]
            /\ UNCHANGED all
    /\ UNCHANGED <<data, langStatus, fs, textDocuments, token, ws, outl>>
    /\ UNCHANGED <<outlineVars, fuzzyVars, indexVars, cacheVars>>

\* fs.readFile resolves (line 336)
TaskRead(f) ==
    /\ tasks[f].pc = "read"
    /\ all' = [all EXCEPT ![f] = fs[f]]
    /\ tasks' = [tasks EXCEPT ![f].pc = "loaded"]
    /\ UNCHANGED <<data, langStatus, fs, textDocuments, token, ws, outl>>
    /\ UNCHANGED <<outlineVars, fuzzyVars, indexVars, cacheVars>>

\* The await of entry.load() resumes (lines 277-293): the prefilter, then
\* _collectMatches up to its first await
TaskLoaded(f) ==
    /\ tasks[f].pc = "loaded"
    /\ LET text == all[f]
       IN  tasks' = [tasks EXCEPT ![f] =
                        IF ~RegexpTest(ws.search, Source(text))
                        THEN [JobDone EXCEPT !.source = text]
                        ELSE [CollectBegin(EntryDoc(f, text))
                                 EXCEPT !.source = text]]
    /\ UNCHANGED <<data, langStatus, fs, textDocuments, all, token, ws,
                   outl>>
    /\ UNCHANGED <<outlineVars, fuzzyVars, indexVars, cacheVars>>

\* _collectMatches of a task proceeds; it pushes to the caller's bucket
TaskCollect(f) ==
    /\ \E o \in CollectSteps(tasks[f], EntryDoc(f, tasks[f].source),
                             ws.search, token.isCancellationRequested) :
          /\ tasks' = [tasks EXCEPT ![f] = o.job]
          /\ ws' = [ws EXCEPT !.result = @ \o o.push]
          /\ data' = o.data
    /\ UNCHANGED <<langStatus, fs, textDocuments, all, token, outl>>
    /\ UNCHANGED <<outlineVars, fuzzyVars, indexVars, cacheVars>>

\* Promise.all rejects as soon as one task has: the search fails, the
\* other tasks of the batch go on
BatchRejected ==
    /\ ws.pc = "batch"
    /\ \E f \in Chunk(ws.allUris, ws.i) : tasks[f].pc = "raised"
    /\ ws' = Return(ws, "raised")
    /\ UNCHANGED <<data, langStatus, fs, textDocuments, all, token,
                   tasks, outl>>
    /\ UNCHANGED <<outlineVars, fuzzyVars, indexVars, cacheVars>>

\* A loop that goes on as soon as one task of the batch has resolved
AnySettled(chunk) == \E f \in chunk : tasks[f].pc = "done"

\* await Promise.all(promises) (line 296) resolves when every task has
AllSettled(chunk) == \A f \in chunk : tasks[f].pc = "done"

\* Promise.all resolves when every task of the batch has (line 296); the
\* loop goes to the next chunk
NextBatch ==
    /\ ws.pc = "batch"
    /\ AllSettled(Chunk(ws.allUris, ws.i))
    /\ LET next == LoopHead(ws, ws.i + chunkSize)
       IN  /\ ws' = next.ws
           /\ tasks' = next.tasks
    /\ UNCHANGED <<data, langStatus, fs, textDocuments, all, token, outl>>
    /\ UNCHANGED <<outlineVars, fuzzyVars, indexVars, cacheVars>>

\* The client cancels the search while it is running
Cancel ==
    /\ ws.pc \in {"docs", "index", "batch"}
    /\ ~token.isCancellationRequested
    /\ token' = [isCancellationRequested |-> TRUE,
                 at |-> [pc |-> ws.pc, i |-> ws.i,
                         settled |->
                            /\ ws.pc = "batch"
                            /\ \A f \in Chunk(ws.allUris, ws.i) :
                                  tasks[f].pc = "done"]]
    /\ UNCHANGED <<data, langStatus, fs, textDocuments, all, ws, tasks,
                   outl>>
    /\ UNCHANGED <<outlineVars, fuzzyVars, indexVars, cacheVars>>

\* A document is opened for the indexed file 0 while the search runs
DidOpenTextDocument ==
    /\ ws.pc \in {"docs", "index", "batch"}
    /\ \A k \in 1..Len(textDocuments) : textDocuments[k].uri # 0
    /\ textDocuments' = Append(textDocuments, FileDoc("M"))
    /\ UNCHANGED <<data, langStatus, fs, all, token, ws, tasks, outl>>
    /\ UNCHANGED <<outlineVars, fuzzyVars, indexVars, cacheVars>>

\* The document of the indexed file 0 is closed while the search runs
DidCloseTextDocument ==
    /\ ws.pc \in {"docs", "index", "batch"}
    /\ \E k \in 1..Len(textDocuments) : textDocuments[k].uri = 0
    /\ textDocuments' = SelectSeq(textDocuments, LAMBDA doc : doc.uri # 0)
    /\ UNCHANGED <<data, langStatus, fs, all, token, ws, tasks, outl>>
    /\ UNCHANGED <<outlineVars, fuzzyVars, indexVars, cacheVars>>

----------------------------------------------------------------------------
(* provideDocumentSymbols up to the captures (symbols.ts:89-104); what     *)
(* it does with the captures is the outline specification.                 *)

\* Line 91: the request arrives and awaits the tree
ProvideDocumentSymbols(languageId) ==
    /\ outl.pc = "idle"
    /\ outl' = [NoSymbols EXCEPT !.pc = "tree", !.languageId = languageId]
    /\ UNCHANGED <<data, langStatus, fs, textDocuments, all, token, ws,
                   tasks>>
    /\ UNCHANGED <<outlineVars, fuzzyVars, indexVars, cacheVars>>

\* Lines 91-96: the tree comes back, or does not
SymbolsTree ==
    /\ outl.pc = "tree"
    /\ \E t \in ParseTrees(outl.languageId, FALSE) :
          outl' = IF ~t
                 THEN [outl EXCEPT !.pc = "done", !.result = "undefined"]
                 ELSE [outl EXCEPT !.pc = GetBegin(outl.languageId).pc,
                                  !.q = GetBegin(outl.languageId).q,
                                  !.tree = TRUE]
    /\ UNCHANGED <<data, langStatus, fs, textDocuments, all, token, ws,
                   tasks>>
    /\ UNCHANGED <<outlineVars, fuzzyVars, indexVars, cacheVars>>

\* get() compiles the awaited query source
SymbolsImport ==
    /\ outl.pc = "import"
    /\ LET c == GetCompiled(outl.languageId)
       IN  /\ outl' = IF c.pc = "raised"
                     THEN [outl EXCEPT !.pc = "done", !.result = "raised"]
                     ELSE [outl EXCEPT !.pc = c.pc, !.q = c.q]
           /\ data' = [data EXCEPT ![outl.languageId] = c.data]
    /\ UNCHANGED <<langStatus, fs, textDocuments, all, token, ws, tasks>>
    /\ UNCHANGED <<outlineVars, fuzzyVars, indexVars, cacheVars>>

\* Lines 96-169: without query undefined, with it the forest
SymbolsQuery ==
    /\ outl.pc = "query"
    /\ outl' = [outl EXCEPT !.pc = "done",
                          !.result = IF outl.q = "query" THEN "forest"
                                     ELSE "undefined"]
    /\ UNCHANGED <<data, langStatus, fs, textDocuments, all, token, ws,
                   tasks>>
    /\ UNCHANGED <<outlineVars, fuzzyVars, indexVars, cacheVars>>

\* The response is sent; the provider is ready for the next request
SymbolsReturn ==
    /\ outl.pc = "done"
    /\ outl' = NoSymbols
    /\ UNCHANGED <<data, langStatus, fs, textDocuments, all, token, ws,
                   tasks>>
    /\ UNCHANGED <<outlineVars, fuzzyVars, indexVars, cacheVars>>

----------------------------------------------------------------------------
(* The search specification *)

SearchInit ==
    /\ data = InitialData
    /\ langStatus \in {"ok", "badquery", "nogrammar"}
    /\ fs \in DiskConfigs
    /\ textDocuments \in DocumentLists
    /\ all = [f \in IndexedUris |-> "undefined"]
    /\ token = NoToken
    /\ \E value \in Modes, str \in Searches :
          ws = [NoSearch EXCEPT !.value = value, !.search = str]
    /\ tasks = [f \in IndexedUris |-> NoJob]
    /\ outl = NoSymbols
    /\ OutlineIdle
    /\ FuzzyIdle
    /\ IndexIdle
    /\ CacheIdle

SearchNext ==
    \/ StartSearch
    \/ DocStep
    \/ DocNext
    \/ IndexReady
    \/ \E f \in IndexedUris : TaskStat(f)
    \/ \E f \in IndexedUris : TaskRead(f)
    \/ \E f \in IndexedUris : TaskLoaded(f)
    \/ \E f \in IndexedUris : TaskCollect(f)
    \/ BatchRejected
    \/ NextBatch
    \/ Cancel
    \/ \E languageId \in Languages : ProvideDocumentSymbols(languageId)
    \/ SymbolsTree
    \/ SymbolsImport
    \/ SymbolsQuery
    \/ SymbolsReturn

SpecSearch == SearchInit /\ [][SearchNext]_vars

\* The search while the editor opens and closes documents
SearchDocsNext ==
    \/ SearchNext
    \/ DidOpenTextDocument
    \/ DidCloseTextDocument

SpecSearchDocs == SearchInit /\ [][SearchDocsNext]_vars

----------------------------------------------------------------------------
(* The lazy file cache on its own (symbols.ts:319-371): the map `all`,     *)
(* the watcher callbacks, and load() calls that overlap with them.  A      *)
(* file read takes two steps: the file system performs it, and later the   *)
(* awaiting load() resumes with what was read.                             *)

CacheUris == 1..NumCacheUris

Calls == 1..MaxLoads

\* What a file can hold: two texts, nothing, and more than 1 MiB
CacheContents == {"a", "b", "", "large"}

\* !this._text (line 330): undefined and the empty string are falsy
Falsy(text) == text \in {"undefined", ""}

\* new Entry(uri) (lines 325-327)
\* (ghosts: readAt is the number of file-system events that had happened
\* when the text was read; loaded, a load() has completed since the last
\* reset)
NewEntry(uri) ==
    [uri |-> uri, text |-> "undefined", readAt |-> 0, loaded |-> FALSE]

\* A reset that leaves the text where it is
resetKeepsText(e) == e

\* reset() (lines 342-344)
reset(e) == [e EXCEPT !.text = "undefined", !.loaded = FALSE]

\* all() (lines 358-366): the keys of the map without the open documents
AllYields == {u \in CacheUris : allMap[u] # 0 /\ u \notin opened}

\* Lines 323, 347-350: an entry for every file found
FoundEntries(found) ==
    LET Found(u) == u \in found
    IN  SelectSeq([u \in CacheUris |-> u], Found)

\* The file system: a file is written, removed or added; the watcher
\* will report it
FsWrite(u, c) ==
    /\ nfs < MaxFsEvents
    /\ files[u] \notin {"absent", c}
    /\ files' = [files EXCEPT ![u] = c]
    /\ watcherEvents' = Append(watcherEvents,
                             [kind |-> "change", uri |-> u, seq |-> nfs + 1])
    /\ nfs' = nfs + 1
    /\ UNCHANGED <<opened, allMap, entryObjs, loadCalls, handled>>
    /\ UNCHANGED <<outlineVars, fuzzyVars, indexVars, searchVars>>

FsRemove(u) ==
    /\ nfs < MaxFsEvents
    /\ files[u] # "absent"
    /\ files' = [files EXCEPT ![u] = "absent"]
    /\ watcherEvents' = Append(watcherEvents,
                             [kind |-> "delete", uri |-> u, seq |-> nfs + 1])
    /\ nfs' = nfs + 1
    /\ UNCHANGED <<opened, allMap, entryObjs, loadCalls, handled>>
    /\ UNCHANGED <<outlineVars, fuzzyVars, indexVars, searchVars>>

FsAdd(u, c) ==
    /\ nfs < MaxFsEvents
    /\ files[u] = "absent"
    /\ files' = [files EXCEPT ![u] = c]
    /\ watcherEvents' = Append(watcherEvents,
                             [kind |-> "create", uri |-> u, seq |-> nfs + 1])
    /\ nfs' = nfs + 1
    /\ UNCHANGED <<opened, allMap, entryObjs, loadCalls, handled>>
    /\ UNCHANGED <<outlineVars, fuzzyVars, indexVars, searchVars>>

\* watcher.onDidDelete(uri => all.delete(uri.toString()))  (line 353)
OnDidDelete ==
    /\ watcherEvents # << >>
    /\ Head(watcherEvents).kind = "delete"
    /\ allMap' = [allMap EXCEPT ![Head(watcherEvents).uri] = 0]
    /\ watcherEvents' = Tail(watcherEvents)
    /\ UNCHANGED <<files, opened, entryObjs, loadCalls, handled, nfs>>
    /\ UNCHANGED <<outlineVars, fuzzyVars, indexVars, searchVars>>

\* watcher.onDidCreate(uri => all.set(uri.toString(), new Entry(uri)))
\* (line 354)
OnDidCreate ==
    /\ watcherEvents # << >>
    /\ Head(watcherEvents).kind = "create"
    /\ entryObjs' = Append(entryObjs, NewEntry(Head(watcherEvents).uri))
    /\ allMap' = [allMap EXCEPT ![Head(watcherEvents).uri] =
                                     Len(entryObjs) + 1]
    /\ watcherEvents' = Tail(watcherEvents)
    /\ UNCHANGED <<files, opened, loadCalls, handled, nfs>>
    /\ UNCHANGED <<outlineVars, fuzzyVars, indexVars, searchVars>>

\* watcher.onDidChange(uri => all.get(uri.toString())?.reset())  (line 355)
OnDidChange ==
    /\ watcherEvents # << >>
    /\ Head(watcherEvents).kind = "change"
    /\ LET u == Head(watcherEvents).uri
       IN  /\ entryObjs' = IF allMap[u] = 0 THEN entryObjs
                           ELSE [entryObjs EXCEPT ![allMap[u]] = reset(@)]
           /\ handled' = [handled EXCEPT ![u] = Head(watcherEvents).seq]
    /\ watcherEvents' = Tail(watcherEvents)
    /\ UNCHANGED <<files, opened, allMap, loadCalls, nfs>>
    /\ UNCHANGED <<outlineVars, fuzzyVars, indexVars, searchVars>>

\* load() is called on an entry that all() gave (lines 329-331, 339): a
\* truthy text is returned as it is, otherwise fs.stat is awaited
Load(k, u) ==
    /\ loadCalls[k].pc = "idle"
    /\ u \in AllYields
    /\ LET e == entryObjs[allMap[u]]
       IN  loadCalls' = [loadCalls EXCEPT ![k] =
              IF Falsy(e.text)
              THEN [NoLoad EXCEPT !.pc = "stat", !.entry = allMap[u],
                                  !.again = e.loaded]
              ELSE [NoLoad EXCEPT !.pc = "returned", !.entry = allMap[u],
                                  !.again = e.loaded, !.ret = e.text,
                                  !.fresh = (e.readAt >= handled[u])]]
    /\ UNCHANGED <<files, watcherEvents, opened, allMap, entryObjs, handled,
                   nfs>>
    /\ UNCHANGED <<outlineVars, fuzzyVars, indexVars, searchVars>>

\* The file system performs the stat: it fails for a file that is gone
StatIO(k) ==
    /\ loadCalls[k].pc = "stat"
    /\ LET u == entryObjs[loadCalls[k].entry].uri
       IN  loadCalls' = [loadCalls EXCEPT ![k] =
              IF files[u] = "absent" THEN [@ EXCEPT !.pc = "raised"]
              ELSE [@ EXCEPT !.pc = "statted",
                             !.large = (files[u] = "large"),
                             !.readAt = nfs]]
    /\ UNCHANGED <<files, watcherEvents, opened, allMap, entryObjs, handled,
                   nfs>>
    /\ UNCHANGED <<outlineVars, fuzzyVars, indexVars, searchVars>>

\* The await of fs.stat resumes (lines 331-336, 339): an over-size file
\* gets the empty text, which is returned; otherwise readFile is awaited
StatResume(k) ==
    /\ loadCalls[k].pc = "statted"
    /\ LET c == loadCalls[k]
           u == entryObjs[c.entry].uri
       IN  IF c.large
           THEN /\ entryObjs' = [entryObjs EXCEPT ![c.entry] =
                                    [@ EXCEPT !.text = "", !.readAt = c.readAt,
                                              !.loaded = TRUE]]
                /\ loadCalls' = [loadCalls EXCEPT ![k] =
                                    [@ EXCEPT !.pc = "returned", !.ret = "",
                                              !.fresh =
                                                 (c.readAt >= handled[u])]]
           ELSE /\ loadCalls' = [loadCalls EXCEPT ![k].pc = "read"]
                /\ UNCHANGED entryObjs
    /\ UNCHANGED <<files, watcherEvents, opened, allMap, handled, nfs>>
    /\ UNCHANGED <<outlineVars, fuzzyVars, indexVars, searchVars>>

\* The file system performs the read
ReadIO(k) ==
    /\ loadCalls[k].pc = "read"
    /\ LET u == entryObjs[loadCalls[k].entry].uri
       IN  loadCalls' = [loadCalls EXCEPT ![k] =
              IF files[u] = "absent" THEN [@ EXCEPT !.pc = "raised"]
              ELSE [@ EXCEPT !.pc = "readdone", !.content = files[u],
                             !.readAt = nfs]]
    /\ UNCHANGED <<files, watcherEvents, opened, allMap, entryObjs, handled,
                   nfs>>
    /\ UNCHANGED <<outlineVars, fuzzyVars, indexVars, searchVars>>

\* The await of fs.readFile resumes (lines 336, 339): the text is stored
\* and returned
ReadResume(k) ==
    /\ loadCalls[k].pc = "readdone"
    /\ LET c == loadCalls[k]
           u == entryObjs[c.entry].uri
       IN  /\ entryObjs' = [entryObjs EXCEPT ![c.entry] =
                               [@ EXCEPT !.text = c.content,
                                         !.readAt = c.readAt,
                                         !.loaded = TRUE]]
           /\ loadCalls' = [loadCalls EXCEPT ![k] =
                               [@ EXCEPT !.pc = "returned", !.ret = c.content,
                                         !.fresh = (c.readAt >= handled[u])]]
    /\ UNCHANGED <<files, watcherEvents, opened, allMap, handled, nfs>>
    /\ UNCHANGED <<outlineVars, fuzzyVars, indexVars, searchVars>>

\* The caller has the outcome of its load(); it may call again
LoadEnd(k) ==
    /\ loadCalls[k].pc \in {"returned", "raised"}
    /\ loadCalls' = [loadCalls EXCEPT ![k] = NoLoad]
    /\ UNCHANGED <<files, watcherEvents, opened, allMap, entryObjs, handled,
                   nfs>>
    /\ UNCHANGED <<outlineVars, fuzzyVars, indexVars, searchVars>>

CacheInit ==
    /\ files \in [CacheUris -> CacheContents \cup {"absent"}]
    /\ watcherEvents = << >>
    /\ opened \in {{}, {1}}
    /\ LET found == {u \in CacheUris : files[u] # "absent"}
       IN  /\ entryObjs = [k \in 1..Cardinality(found) |->
                              NewEntry(FoundEntries(found)[k])]
           /\ allMap = [u \in CacheUris |->
                           IF u \in found
                           THEN Cardinality({v \in found : v <= u})
                           ELSE 0]
    /\ loadCalls = [k \in Calls |-> NoLoad]
    /\ handled = [u \in CacheUris |-> 0]
    /\ nfs = 0
    /\ OutlineIdle
    /\ FuzzyIdle
    /\ IndexIdle
    /\ SearchIdle

CacheNext ==
    \/ \E u \in CacheUris, c \in CacheContents : FsWrite(u, c)
    \/ \E u \in CacheUris : FsRemove(u)
    \/ \E u \in CacheUris, c \in CacheContents : FsAdd(u, c)
    \/ OnDidDelete
    \/ OnDidCreate
    \/ OnDidChange
    \/ \E k \in Calls, u \in CacheUris : Load(k, u)
    \/ \E k \in Calls : StatIO(k)
    \/ \E k \in Calls : StatResume(k)
    \/ \E k \in Calls : ReadIO(k)
    \/ \E k \in Calls : ReadResume(k)
    \/ \E k \in Calls : LoadEnd(k)

SpecCache == CacheInit /\ [][CacheNext]_vars

----------------------------------------------------------------------------
(* The outline specification *)

OutlineInit ==
    /\ captures \in WellNestedSeqs(MaxCaps) \cup AnySeqs(MaxAnyCaps)
                      \cup {ExampleCaps}
    /\ ci = 0
    /\ roots = << >>
    /\ stack = << >>
    /\ children = [n \in 1..Len(captures) |-> << >>]
    /\ ophase = "tree"
    /\ result = << >>
    /\ FuzzyIdle
    /\ IndexIdle
    /\ SearchIdle
    /\ CacheIdle

OutlineNext ==
    \/ ProcessCapture
    \/ TreeDone
    \/ MakeSymbols

SpecOutline == OutlineInit /\ [][OutlineNext]_vars

\* provideDocumentSymbols runs from the captures to the return without an
\* await: each of its steps is taken once it can be
SpecOutlineFair == SpecOutline /\ WF_vars(OutlineNext)

----------------------------------------------------------------------------
(* Properties of the outline builder *)

\* inner lies within outer (start <= start and end <= end)
Inside(inner, outer) == outer[1] <= inner[1] /\ inner[2] <= outer[2]

\* Every symbol of a forest, at any depth
RECURSIVE AllSymbols(_)
AllSymbols(syms) ==
    UNION {{syms[k]} \cup AllSymbols(syms[k].children) : k \in 1..Len(syms)}

RECURSIVE Depth(_)
Depth(sym) ==
    IF sym.children = << >> THEN 1
    ELSE 1 + CHOOSE d \in 1..Len(captures) :
                 /\ \E k \in 1..Len(sym.children) : Depth(sym.children[k]) = d
                 /\ \A k \in 1..Len(sym.children) : Depth(sym.children[k]) <= d

OutlineDone == ophase = "done"

\* C1: for a well-nested capture sequence, every produced symbol's range
\* contains its selectionRange and the range of each of its descendants.
C1_RangeContainment ==
    (OutlineDone /\ WellNested(captures)) =>
        \A sym \in AllSymbols(result) :
            /\ Inside(sym.selectionRange, sym.range)
            /\ \A d \in AllSymbols(sym.children) : Inside(d.range, sym.range)

\* a finished well-nested run with a symbol that has a grandchild and whose
\* selectionRange is that of a name child
C1_Witness ==
    /\ OutlineDone
    /\ WellNested(captures)
    /\ \E sym \in AllSymbols(result) :
          /\ Depth(sym) >= 3
          /\ sym.selectionRange # sym.range

\* The first immediate child of node n labeled `<label of n>.name`, by the
\* parent links the stack pass recorded; 0 when n has none.
FirstNameChild(n) ==
    LET hits == {k \in 1..Len(children[n]) :
                    captures[children[n][k]].name = captures[n].name \o ".name"}
    IN  IF hits = {} THEN 0
        ELSE children[n][CHOOSE k \in hits : \A h \in hits : k <= h]

\* C2: the first immediate `X.name` child of an X node is no symbol of the
\* output forest; it supplies the name and selectionRange of its parent's
\* symbol.
C2_NameChildAbsorbed ==
    OutlineDone =>
        \A n \in 1..Len(captures) :
            FirstNameChild(n) # 0 =>
                /\ \A sym \in AllSymbols(result) : sym.node # FirstNameChild(n)
                /\ \A sym \in AllSymbols(result) :
                      sym.node = n =>
                          /\ sym.name = captures[FirstNameChild(n)].text
                          /\ sym.selectionRange =
                                 <<captures[FirstNameChild(n)].start,
                                   captures[FirstNameChild(n)].end>>

\* a finished run in which a symbol took its name from a name child while a
\* second `X.name` child of the same node became a symbol of its own
C2_Witness ==
    /\ OutlineDone
    /\ \E sym \in AllSymbols(result) :
          /\ FirstNameChild(sym.node) # 0
          /\ sym.name = captures[FirstNameChild(sym.node)].text
          /\ \E k \in 1..Len(sym.children) :
                captures[sym.children[k].node].name =
                    captures[sym.node].name \o ".name"

\* The reference construction: the parent of a capture is the innermost
\* earlier capture whose span contains it.
RefParent(i) ==
    LET outer == {j \in 1..(i - 1) :
                     Inside(<<captures[i].start, captures[i].end>>,
                            <<captures[j].start, captures[j].end>>)}
    IN  IF outer = {} THEN 0 ELSE CHOOSE j \in outer : \A h \in outer : h <= j

RECURSIVE Ascending(_)
Ascending(S) ==
    IF S = {} THEN << >>
    ELSE LET m == CHOOSE x \in S : \A y \in S : x <= y
         IN  <<m>> \o Ascending(S \ {m})

RefChildren(i) == Ascending({k \in 1..Len(captures) : RefParent(k) = i})

RefNameChild(i) ==
    LET hits == {k \in 1..Len(captures) :
                    /\ RefParent(k) = i
                    /\ captures[k].name = captures[i].name \o ".name"}
    IN  IF hits = {} THEN 0 ELSE CHOOSE k \in hits : \A h \in hits : k <= h

\* the classifier on the labels of the generated inputs
RefKind(label) ==
    CASE label = "class" -> "Class"
      [] label = "method" -> "Method"
      [] OTHER -> "Variable"

RECURSIVE RefSymbol(_)
RefForest(nodes) == [k \in 1..Len(nodes) |-> RefSymbol(nodes[k])]
RefSymbol(i) ==
    LET nm == IF RefNameChild(i) = 0 THEN i ELSE RefNameChild(i)
    IN  [name |-> captures[nm].text,
         kind |-> RefKind(captures[i].name),
         range |-> <<captures[i].start, captures[i].end>>,
         selectionRange |-> <<captures[nm].start, captures[nm].end>>,
         children |-> RefForest(Ascending({k \in 1..Len(captures) :
                                  RefParent(k) = i /\ k # RefNameChild(i)})),
         node |-> i]

\* The outline the end-to-end example must yield
ExampleOutline ==
    << [name |-> "foo", kind |-> "Class", range |-> <<0, 40>>,
        selectionRange |-> <<6, 9>>, node |-> 1,
        children |->
            << [name |-> "bar", kind |-> "Method", range |-> <<12, 30>>,
                selectionRange |-> <<16, 19>>, node |-> 3,
                children |-> << >>] >>] >>

\* C3: the example yields exactly its outline, and on every well-nested
\* sequence the result is the reference construction (name and
\* selectionRange from the name child or else from the node itself, kind
\* from the node's own label).
C3_ReferenceConstruction ==
    OutlineDone =>
        /\ captures = ExampleCaps => result = ExampleOutline
        /\ WellNested(captures) => result = RefForest(RefChildren(0))

\* the example has run to its end; so has a well-nested input in which a
\* node without a name child is named by its own text
C3_Witness ==
    /\ OutlineDone
    /\ captures = ExampleCaps
    /\ Len(result) = 1
    /\ result[1].name = "foo"
    /\ Len(result[1].children) = 1

\* C8: for a well-nested capture sequence no root's range contains the
\* range of another root.
C8_RootsDisjoint ==
    (OutlineDone /\ WellNested(captures)) =>
        \A i, j \in 1..Len(result) :
            i # j => ~Inside(result[j].range, result[i].range)

\* a finished well-nested run with two roots, one of them with a child
C8_Witness ==
    /\ OutlineDone
    /\ WellNested(captures)
    /\ Len(result) >= 2
    /\ \E i \in 1..Len(result) : result[i].children # << >>

\* how often node n is among the roots, and among the children of p
TimesRoot(n) == Cardinality({k \in 1..Len(roots) : roots[k] = n})

TimesChildOf(p, n) ==
    Cardinality({k \in 1..Len(children[p]) : children[p][k] = n})

Parents(n) == {p \in 1..Len(captures) : TimesChildOf(p, n) > 0}

\* two captures that overlap without one holding the other
Overlapping(a, b) ==
    /\ a.start < b.start
    /\ b.start < a.end
    /\ a.end < b.end

\* C17: for every capture sequence, well-nested or not, the construction
\* comes to its end; each step processes one capture with at most as many
\* pops as the stack is high, and every processed capture is either a root
\* or a child of exactly one earlier node, once, and never both.
C17_ConstructionTerminates ==
    /\ <>(ophase = "done")
    /\ [](ophase # "tree" => ci = Len(captures))
    /\ [](\A n \in 1..Len(captures) :
            IF n <= ci
            THEN \/ /\ TimesRoot(n) = 1
                    /\ Parents(n) = {}
                 \/ /\ TimesRoot(n) = 0
                    /\ \E p \in 1..(n - 1) :
                          Parents(n) = {p} /\ TimesChildOf(p, n) = 1
            ELSE TimesRoot(n) = 0 /\ Parents(n) = {})
    /\ [][ci' # ci =>
              /\ ci' = ci + 1
              /\ Len(stack) + 1 - Len(stack') \in 0..Len(stack)]_vars

\* a finished run on two captures that overlap partially: the first was
\* popped for the second, and both are roots
C17_Witness ==
    /\ OutlineDone
    /\ Len(captures) = 2
    /\ Overlapping(captures[1], captures[2])
    /\ roots = <<1, 2>>
    /\ stack = <<2>>

\* the span of a processed capture
Span(n) == <<captures[n].start, captures[n].end>>

\* C20: once a capture has been processed the stack is not empty, its top
\* is the node of that capture, its bottom is a root, and each element
\* holds the range of the element above it, which is one of its children:
\* the stack is the path from a root to the node just processed.
C20_StackIsAChain ==
    ci >= 1 =>
        /\ stack # << >>
        /\ stack[Len(stack)] = ci
        /\ TimesRoot(stack[1]) = 1
        /\ \A k \in 1..(Len(stack) - 1) :
              /\ Inside(Span(stack[k + 1]), Span(stack[k]))
              /\ TimesChildOf(stack[k], stack[k + 1]) = 1
              /\ stack[k] < stack[k + 1]

\* the fourth capture has just been processed: two scopes that had closed
\* were popped for it, and the stack is the path from the root to it
C20_Witness ==
    /\ ophase = "tree"
    /\ ci = 4
    /\ stack = <<1, 4>>
    /\ children[1] = <<2, 4>>
    /\ children[2] = <<3>>
    /\ roots = <<1>>

\* The captures the symbols of a forest were built from, in pre-order
RECURSIVE SymbolNodes(_)
SymbolNodes(syms) ==
    IF syms = << >> THEN << >>
    ELSE <<Head(syms).node>> \o SymbolNodes(Head(syms).children) \o
         SymbolNodes(Tail(syms))

\* how many symbols of the result were built from capture n
SymbolsOf(n) ==
    Cardinality({k \in 1..Len(SymbolNodes(result)) :
                    SymbolNodes(result)[k] = n})

\* the nodes that took capture n as their name
NamedBy(n) == {p \in 1..Len(captures) : FirstNameChild(p) = n}

Absorbed == {n \in 1..Len(captures) : NamedBy(n) # {}}

\* the nodes of a sequence of sibling symbols are in capture order
InCaptureOrder(syms) ==
    \A i, j \in 1..Len(syms) : i < j => syms[i].node < syms[j].node

\* C21: every capture either yields exactly one symbol of the forest or is
\* absorbed as the name of exactly one parent symbol, so there are as many
\* symbols as captures that are not absorbed; a second `X.name` child of
\* an X node yields a symbol of its own; sibling symbols are in capture
\* order.
C21_CaptureConservation ==
    OutlineDone =>
        /\ \A n \in 1..Len(captures) :
              \/ SymbolsOf(n) = 1 /\ NamedBy(n) = {}
              \/ SymbolsOf(n) = 0 /\ Cardinality(NamedBy(n)) = 1
        /\ Len(SymbolNodes(result)) = Len(captures) - Cardinality(Absorbed)
        /\ \A p \in 1..Len(captures) :
              \A k \in 1..Len(children[p]) :
                  (/\ captures[children[p][k]].name = captures[p].name \o ".name"
                   /\ children[p][k] # FirstNameChild(p))
                      => SymbolsOf(children[p][k]) = 1
        /\ InCaptureOrder(result)
        /\ \A sym \in AllSymbols(result) : InCaptureOrder(sym.children)

----------------------------------------------------------------------------
(* Properties of the prefilter *)

\* A text holds, from position pos on, the characters str[k..] themselves
\* (compared without case), each followed by word characters
RECURSIVE HoldsFrom(_, _, _, _)
HoldsFrom(str, text, k, pos) ==
    IF k > Len(str) THEN TRUE
    ELSE /\ pos <= Len(text)
         /\ Lower(str[k]) = Lower(text[pos])
         /\ \E j \in 0..(Len(text) - pos) :
               /\ \A m \in 1..j : IsWord(text[pos + m])
               /\ HoldsFrom(str, text, k + 1, pos + 1 + j)

HoldsAtBoundary(str, text) ==
    \E p \in 1..(Len(text) + 1) :
        /\ p = 1 \/ text[p - 1] \in {" ", "_", "-"}
        /\ HoldsFrom(str, text, 1, p)

\* C7: query "fb" is accepted for "fooBar" and "foo_bar" and rejected for
\* "abcfb"; in general a prefilter that was built accepts a text iff the
\* text holds, at its start or right after a whitespace, "_" or "-", the
\* query's characters c1 w* c2 w* ... cn w* compared without case.
C7_PrefilterIsBoundarySubsequence ==
    (fphase = "done" /\ prefilter # "skipped") =>
        /\ (search = Str_fb /\ source \in {Str_fooBar, Str_foo_bar})
              => prefilter = "accepted"
        /\ (search = Str_fb /\ source = Str_abcfb) => prefilter = "rejected"
        /\ (prefilter = "accepted") <=> HoldsAtBoundary(search, source)

----------------------------------------------------------------------------
(* Properties of the reference resolver, the index and completion *)

Locations(entries) == [k \in 1..Len(entries) |-> entries[k].location]

OfKind(entries, kind) == SelectSeq(entries, LAMBDA e : e.kind = kind)

\* The entries a finished references request gathered, usages first, and
\* those of them that hold the cursor and have a kind
Gathered == req.usages \o req.symbols

CursorHits ==
    {k \in 1..Len(Gathered) :
        /\ Gathered[k].kind # "undefined"
        /\ Gathered[k].location.uri = req.uri
        /\ Gathered[k].location.range[1] <= req.position
        /\ req.position <= Gathered[k].location.range[2]}

CursorKind == Gathered[CHOOSE k \in CursorHits : \A h \in CursorHits : k <= h].kind

RefDone == req.kind = "references" /\ req.pc = "done"

\* C4: when the cursor lies inside an entry of kind K (the first such entry,
\* usages scanned before definitions), the result is the locations of the
\* entries of kind K (definitions only with includeDeclaration) followed by
\* those of the unknown-kind usages; an entry of another known kind
\* contributes nothing.
C4_ReferencesTieBreak ==
    (RefDone /\ CursorHits # {}) =>
        /\ req.result =
               Locations(OfKind(req.usages, CursorKind)) \o
               (IF req.includeDeclaration
                THEN Locations(OfKind(req.symbols, CursorKind)) ELSE << >>) \o
               Locations(OfKind(req.usages, "undefined"))
        /\ \A k \in 1..Len(Gathered) :
              (\E i \in 1..Len(req.result) : req.result[i] = Gathered[k].location)
                  => \E j \in 1..Len(Gathered) :
                        /\ Gathered[j].location = Gathered[k].location
                        /\ Gathered[j].kind \in {CursorKind, "undefined"}

\* a finished request with the cursor on a Function entry of foo, while a
\* Variable usage of foo in another file is left out and an unknown-kind
\* usage is returned
C4_Witness ==
    /\ RefDone
    /\ CursorHits # {}
    /\ CursorKind = "Function"
    /\ \E k \in 1..Len(req.usages) :
          /\ req.usages[k].kind = "Variable"
          /\ req.usages[k].location.uri # req.uri
          /\ \A i \in 1..Len(req.result) : req.result[i] # req.usages[k].location
    /\ \E k \in 1..Len(req.usages) :
          /\ req.usages[k].kind = "undefined"
          /\ \E i \in 1..Len(req.result) : req.result[i] = req.usages[k].location

\* No event of file f is on its way to the index or waits to be reconciled
Settled(f) ==
    /\ \A k \in 1..Len(notifications) : notifications[k].uri # f
    /\ \A k \in 1..Len(queue) : queue[k].uri # f
    /\ \A k \in 1..Len(upd.taken) : upd.taken[k].uri # f

\* onFileAdded(f) has been handled and update() has not been called since
AddPending(f) ==
    \E k \in 1..Len(queue) : queue[k].op = "add" /\ queue[k].uri = f

NoEntries == [defs |-> << >>, uses |-> << >>]

\* what a file of content c contributes, stated on the contents
ExpectedEntries(f, c) ==
    [defs |-> [k \in 1..Len(ContentDefs(c)) |->
                  [name |-> ContentDefs(c)[k].name, kind |-> ContentDefs(c)[k].kind,
                   location |-> [uri |-> f, range |-> ContentDefs(c)[k].range]]],
     uses |-> [k \in 1..Len(ContentUses(c)) |->
                  [name |-> ContentUses(c)[k].name, kind |-> ContentUses(c)[k].kind,
                   location |-> [uri |-> f, range |-> ContentUses(c)[k].range]]]]

ReflectsExactly(f) == index[f] = ExpectedEntries(f, disk[f])

QueuedAtStart(r, f) == SelectSeq(r.queued, LAMBDA e : e.uri = f)

LastQueued(r, f) == QueuedAtStart(r, f)[Len(QueuedAtStart(r, f))]

\* The entries of the looked-up name that request r gathered from file f
GatheredFrom(r, f) ==
    [defs |-> SelectSeq(r.symbols, LAMBDA e : e.location.uri = f),
     uses |-> SelectSeq(r.usages, LAMBDA e : e.location.uri = f)]

\* The entries of name n among those a file of content c contributes
NamedEntries(f, c, n) ==
    [defs |-> SelectSeq(ExpectedEntries(f, c).defs, LAMBDA e : e.name = n),
     uses |-> SelectSeq(ExpectedEntries(f, c).uses, LAMBDA e : e.name = n)]

\* the step in which a references request reads the index
ReadsIndex ==
    /\ req'.kind = "references"
    /\ req.pc # "done"
    /\ req'.pc = "done"
    /\ req.pc = "gather" \/ req'.usages \o req'.symbols # << >>

Count(seq, x) == Cardinality({i \in 1..Len(seq) : seq[i] = x})

\* The gathered entries that are candidates for the result: all of them
\* when the cursor is in no entry with a kind, else those of the cursor's
\* kind and those of unknown kind
Candidates(entries) ==
    IF CursorHits = {} THEN entries
    ELSE SelectSeq(entries, LAMBDA e : e.kind \in {CursorKind, "undefined"})

AllLocations == {Gathered[k].location : k \in 1..Len(Gathered)}

\* C13: the result holds each candidate usage location as often as it was
\* gathered, whatever the flag; definition locations are added to it only
\* when includeDeclaration is true, so without the flag the result is made
\* of usage locations only.
C13_DeclarationsOnlyWithFlag ==
    RefDone =>
        /\ \A i \in 1..Len(req.result) : req.result[i] \in AllLocations
        /\ \A loc \in AllLocations :
              Count(req.result, loc) =
                  Count(Locations(Candidates(req.usages)), loc) +
                  (IF req.includeDeclaration
                   THEN Count(Locations(Candidates(req.symbols)), loc) ELSE 0)
        /\ ~req.includeDeclaration =>
              Len(req.result) = Len(Candidates(req.usages))

\* a request without the flag gathered a definition of the cursor's kind
\* whose location is not that of a usage, and returned usages without it
C13_Witness ==
    /\ RefDone
    /\ ~req.includeDeclaration
    /\ req.result # << >>
    /\ \E k \in 1..Len(req.symbols) :
          /\ Candidates(req.symbols) # << >>
          /\ req.symbols[k] = Candidates(req.symbols)[1]
          /\ \A j \in 1..Len(req.usages) :
                req.usages[j].location # req.symbols[k].location
          /\ \A i \in 1..Len(req.result) :
                req.result[i] # req.symbols[k].location

\* The entries the buckets are built from: the usages, then the
\* definitions when the flag is set
Bucketed ==
    req.usages \o (IF req.includeDeclaration THEN req.symbols ELSE << >>)

\* entries grouped by kind, the groups in the order in which their kinds
\* first occur
RECURSIVE DiscoveryOrder(_)
DiscoveryOrder(entries) ==
    IF entries = << >> THEN << >>
    ELSE SelectSeq(entries, LAMBDA e : e.kind = Head(entries).kind) \o
         DiscoveryOrder(SelectSeq(entries, LAMBDA e : e.kind # Head(entries).kind))

\* no gathered entry holds the cursor
CursorInNoEntry ==
    \A k \in 1..Len(Gathered) :
        ~ /\ Gathered[k].location.uri = req.uri
          /\ Gathered[k].location.range[1] <= req.position
          /\ req.position <= Gathered[k].location.range[2]

\* C14: when thisKind stays undefined (no gathered entry with a kind holds
\* the cursor, in particular when no gathered entry holds it) the result
\* is every bucket, the unknown one included, flattened in the order in
\* which the buckets were first filled; when neither usages nor
\* definitions are there for the identifier the result is empty.
C14_UndefinedKindReturnsAllBuckets ==
    RefDone =>
        /\ CursorInNoEntry => CursorHits = {}
        /\ CursorHits = {} => req.result = Locations(DiscoveryOrder(Bucketed))
        /\ (req.usages = << >> /\ req.symbols = << >>) => req.result = << >>

\* the cursor is in no gathered entry, and the result holds a bucket of a
\* known kind followed by the bucket of the unknown kind
C14_Witness ==
    /\ RefDone
    /\ CursorInNoEntry
    /\ Len(req.result) >= 2
    /\ \E i, j \in 1..Len(Bucketed) :
          /\ Bucketed[i].kind # "undefined"
          /\ Bucketed[j].kind = "undefined"
          /\ req.result[1] = Bucketed[i].location
          /\ req.result[Len(req.result)] = Bucketed[j].location

\* the completion kind that is the counterpart of a symbol kind
CounterpartKind(kind) == "CompletionItemKind." \o kind

\* the definitions mapping as the completion handler finds it
FirstDefinitionKind(n) == lookupDefinitions(n)[1].kind

\* C10: completion returns at most one candidate per text; a name that has
\* definitions in the index carries the kind of its first definition
\* entry, also when it is a local identifier too; a name found only
\* locally carries no kind.
C10_CompletionKinds ==
    [][(req.kind = "none" /\ req'.kind = "completion" /\ req'.result # << >>) =>
          LET items == req'.result
          IN  /\ \A i, j \in 1..Len(items) :
                    items[i].label = items[j].label => i = j
              /\ \A n \in Names :
                    lookupDefinitions(n) # << >> =>
                        \E i \in 1..Len(items) :
                            /\ items[i].label = n
                            /\ items[i].kind = CounterpartKind(FirstDefinitionKind(n))
              /\ \A i \in 1..Len(items) :
                    lookupDefinitions(items[i].label) = << >> =>
                        items[i].kind = "undefined"]_vars

----------------------------------------------------------------------------
(* Properties of the workspace search and of unsupported input *)

\* The token was cancelled when every task of the first batch had
\* finished and the loop had not gone on to the second
CancelledAfterBatch1 ==
    token.at = [pc |-> "batch", i |-> 0, settled |-> TRUE]

FirstBatch == {ws.allUris[k] : k \in 1..chunkSize}

LaterBatches == {ws.allUris[k] : k \in (chunkSize + 1)..Len(ws.allUris)}

Elements(seq) == {seq[k] : k \in 1..Len(seq)}

\* What a document with the given content has to offer to the query
Offered(document) ==
    IF /\ document.scheme \notin {"git", "vsls"}
       /\ document.languageId = "typescript"
       /\ langStatus = "ok"
    THEN Elements(ForEachCapture(ws.search, document, 1, << >>).symbols)
    ELSE {}

OpenDocumentMatches ==
    UNION {Offered(textDocuments[k]) : k \in 1..Len(textDocuments)}

Batch1Matches ==
    UNION {IF RegexpTest(ws.search, Source(all[f]))
           THEN Offered(EntryDoc(f, all[f])) ELSE {} : f \in FirstBatch}

\* C6: in workspace mode with three batches, when the search is cancelled
\* after batch 1 has completed and before batch 2 starts, no file of
\* batches 2-3 is ever loaded or matched, and the search returns the list
\* holding exactly the matches of the open documents and of batch 1.
C6_CancelAfterBatch1 ==
    (CancelledAfterBatch1 /\ Len(ws.allUris) > 2 * chunkSize) =>
        /\ \A f \in LaterBatches :
              tasks[f].pc = "none" /\ all[f] = "undefined"
        /\ ws.pc = "done" =>
              /\ ws.outcome = "list"
              /\ Elements(ws.result) = OpenDocumentMatches \cup Batch1Matches
              /\ Len(ws.result) =
                    Cardinality(OpenDocumentMatches \cup Batch1Matches)

\* Cancelled after batch 1 of 3; the result holds a match of the open
\* document and the matches of batch 1, and batches 2-3 had matches to give
C6_Witness ==
    /\ CancelledAfterBatch1
    /\ Len(ws.allUris) > 2 * chunkSize
    /\ ws.pc = "done"
    /\ ws.outcome = "list"
    /\ \E k \in 1..Len(ws.result) : ws.result[k].uri = 0
    /\ \A f \in FirstBatch : \E k \in 1..Len(ws.result) : ws.result[k].uri = f
    /\ \A f \in LaterBatches : fs[f] = "M"

\* A language without registered query, without grammar, or whose query
\* does not compile
Unsupported(languageId) == languageId # "typescript" \/ langStatus # "ok"

\* C9: provideDocumentSymbols returns undefined, and never raises, when
\* the document has no tree, its language has no registered query or the
\* query failed to compile; a language deleted after a compile failure
\* stays deleted; the workspace search holds no symbol of such a document
\* and does not fail because of one.
C9_UnsupportedNeverRaises ==
    /\ [](/\ outl.result # "raised"
          /\ (outl.pc = "done" /\ (~outl.tree \/ Unsupported(outl.languageId)))
                => outl.result = "undefined"
          /\ langStatus = "badquery" => data["typescript"] # "query"
          /\ data["javascript"] = "absent"
          /\ ws.outcome = "raised" => langStatus = "ok"
          /\ \A k \in 1..Len(ws.result) :
                /\ ws.result[k].uri # UntitledDoc.uri
                /\ langStatus = "ok")
    /\ [][\A l \in Languages : data[l] = "absent" => data'[l] = "absent"]_vars

\* The query of typescript failed to compile and the language was deleted;
\* an outline request for a typescript document with a tree returned
\* undefined, and a workspace search that went through a file with a class
\* in it returned its list
C9_Witness ==
    /\ langStatus = "badquery"
    /\ data["typescript"] = "absent"
    /\ outl.pc = "done"
    /\ outl.languageId = "typescript"
    /\ outl.tree
    /\ outl.result = "undefined"
    /\ ws.pc = "done"
    /\ ws.outcome = "list"
    /\ ws.value = "workspace"
    /\ \E f \in IndexedUris : tasks[f].pc = "done" /\ tasks[f].source = "M"

\* The files whose entry.load() is awaited, and the files with a task
\* that has started and not finished
Loading == {f \in IndexedUris : tasks[f].pc \in {"stat", "read", "loaded"}}

Outstanding == {f \in IndexedUris : tasks[f].pc \notin {"none", "done", "raised"}}

\* the position in allUris of a file of the search at hand
PositionOf(f) == CHOOSE k \in 1..Len(ws.allUris) : ws.allUris[k] = f

\* the batch loop comes to its head: it enters, or goes from one chunk to
\* the next, or returns the list
AtLoopHead ==
    /\ ws.pc \in {"index", "batch"}
    /\ ws'.outcome # "raised"
    /\ ws'.pc # ws.pc \/ ws'.i # ws.i

\* C15: batches are processed one after the other: while a batch is
\* processed every task of an earlier batch has finished and no task of a
\* later batch has started, so at most chunkSize loads are in flight; and
\* whenever the loop comes to its head, where the token is checked, no
\* task is outstanding.
C15_BatchesAreSequential ==
    /\ [](ws.pc = "batch" =>
            \A f \in IndexedUris :
                /\ f \notin Chunk(ws.allUris, ws.i) =>
                       tasks[f].pc \in {"none", "done"}
                /\ (f \in Elements(ws.allUris) /\ PositionOf(f) <= ws.i) =>
                       tasks[f].pc = "done"
                /\ (f \in Elements(ws.allUris)
                        /\ PositionOf(f) > ws.i + chunkSize) =>
                       tasks[f].pc = "none")
    /\ [](Cardinality(Loading) <= chunkSize)
    /\ [][AtLoopHead => Outstanding = {}]_vars

\* the second batch is being processed with chunkSize loads in flight,
\* after the tasks of the first batch have loaded and matched their files
C15_Witness ==
    /\ ws.pc = "batch"
    /\ ws.i = chunkSize
    /\ Cardinality(Loading) = chunkSize
    /\ Loading = Chunk(ws.allUris, ws.i)
    /\ \A f \in Chunk(ws.allUris, 0) :
          tasks[f].pc = "done" /\ tasks[f].source # "undefined"
    /\ ws.result # << >>

\* the search returns in this step
Returns == ws.pc # "done" /\ ws'.pc = "done"

\* the document loop leaves the document at hand
LeavesDocument == ws.pc = "docs" /\ (ws'.pc # "docs" \/ ws'.di # ws.di)

\* C16: a search that finds the token cancelled when it leaves an open
\* document returns undefined, whatever it has accumulated, and undefined
\* is returned nowhere else; a list is returned under cancellation only
\* from the head of the batch loop, and it is the list accumulated so far;
\* the search returns only when the document at hand has been processed
\* and no task of a batch is outstanding, unless one of them failed.
C16_CancellationAtBoundaries ==
    /\ [][(LeavesDocument /\ token.isCancellationRequested) =>
              /\ ws.job.pc \in {"done", "raised"}
              /\ ws'.pc = "done"
              /\ ws'.outcome = (IF ws.job.pc = "raised" THEN "raised"
                                ELSE "undefined")]_vars
    /\ [][(Returns /\ ws'.outcome = "undefined") =>
              /\ ws.pc = "docs"
              /\ ws.job.pc = "done"
              /\ token.isCancellationRequested]_vars
    /\ [][(Returns /\ ws'.outcome = "list" /\ token.isCancellationRequested) =>
              /\ ws.pc \in {"index", "batch"}
              /\ ws'.result = ws.result]_vars
    /\ [][(Returns /\ ws'.outcome # "raised") =>
              /\ ws.pc = "docs" => ws.job.pc = "done"
              /\ Outstanding = {}]_vars
    /\ [][token'.isCancellationRequested # token.isCancellationRequested =>
              ws' = ws /\ tasks' = tasks]_vars

\* the search was cancelled while an open document with a match was being
\* processed, and has returned undefined although a symbol was accumulated
C16_Witness ==
    /\ ws.pc = "done"
    /\ ws.outcome = "undefined"
    /\ ws.result # << >>
    /\ token.isCancellationRequested
    /\ token.at.pc = "docs"

\* the uris of the documents the open-documents phase went through
DocumentUris == {ws.docs[k].uri : k \in 1..Len(ws.docs)}

\* a workspace-mode search that has listed the files of the index
FilesListed == ws.value = "workspace" /\ ws.pc = "batch"

\* C22: in a workspace-mode search every indexed file is gone through by
\* exactly one of the two phases, as an open document or as a file of the
\* index, whatever documents are opened or closed while the search runs.
C22_NoFileSearchedTwice ==
    FilesListed =>
        \A u \in IndexedUris :
            (u \in DocumentUris) # (u \in Elements(ws.allUris))

\* symbol s is what the forEach makes of the k-th capture of content c
EmittedFor(s, c, k) ==
    LET array == QueryCaptures(c)
    IN  /\ EndsWithName(array[k].name)
        /\ s.name = array[k].text
        /\ k > 1
        /\ IF StartsWith(array[k].name, array[k - 1].name)
           THEN /\ s.containerName = array[k - 1].name
                /\ s.kind = getSymbolKind(array[k - 1].name)
           ELSE /\ s.containerName = ""
                /\ s.kind = "Struct"

\* C23: _collectMatches never raises, whatever the capture sequence, also
\* when its first capture is a name capture; every symbol it emits is that
\* of a name capture, with the container name and kind of the capture
\* before it exactly when that capture's label is a prefix of its label.
C23_CollectMatchesIsTotal ==
    /\ ws.job.pc # "raised"
    /\ \A f \in IndexedUris : tasks[f].pc # "raised"
    /\ ws.outcome # "raised"
    /\ \A i \in 1..Len(ws.result) :
          \E c \in Contents :
              \E k \in 1..Len(QueryCaptures(c)) :
                  EmittedFor(ws.result[i], c, k)

----------------------------------------------------------------------------
(* Properties of the lazy file cache *)

\* C11: once a change notification for a file has been handled, a load()
\* of it that returns afterwards returns a text that was read from the
\* file no earlier than the change it reported, whatever load() calls
\* were in flight.
C11_LoadAfterChangeIsFresh ==
    \A k \in Calls : loadCalls[k].pc = "returned" => loadCalls[k].fresh

\* C18: a load() of an entry on which a load() has completed, with no
\* change notification handled since, returns the cached text and performs
\* neither a stat nor a read, whatever the file holds (also nothing, or
\* more than 1 MiB).
C18_CachedContentIsReused ==
    \A k \in Calls :
        loadCalls[k].again =>
            loadCalls[k].pc \notin {"stat", "statted", "read", "readdone",
                                    "raised"}

\* the watcher callback of the given kind runs in this step
Handles(kind) ==
    /\ watcherEvents # << >>
    /\ Head(watcherEvents).kind = kind
    /\ watcherEvents' = Tail(watcherEvents)

Reported == Head(watcherEvents).uri

\* C19: the set all() enumerates follows the watcher: after a delete
\* notification for a uri it does not yield the uri, and a uri it does not
\* yield comes back only with a create notification for it; after a
\* create notification the uri has a new entry without text, which all()
\* yields (as it yields every entry whose uri has no open document); a
\* change notification leaves the set as it is and the entry in it, with
\* its text cleared.
C19_FileSetTracksWatcher ==
    /\ [][Handles("delete") =>
              /\ allMap'[Reported] = 0
              /\ Reported \notin AllYields']_vars
    /\ [][\A u \in CacheUris :
             (u \notin AllYields /\ u \in AllYields') =>
                 Handles("create") /\ Reported = u]_vars
    /\ [][Handles("create") =>
              /\ allMap'[Reported] = Len(entryObjs) + 1
              /\ entryObjs'[allMap'[Reported]] =
                     [uri |-> Reported, text |-> "undefined", readAt |-> 0,
                      loaded |-> FALSE]
              /\ Reported \notin opened => Reported \in AllYields']_vars
    /\ [][Handles("change") =>
              /\ allMap' = allMap
              /\ AllYields' = AllYields
              /\ Len(entryObjs') = Len(entryObjs)
              /\ allMap[Reported] # 0 =>
                     /\ entryObjs'[allMap[Reported]].uri = Reported
                     /\ entryObjs'[allMap[Reported]].text = "undefined"]_vars

\* a file whose text was cached has been deleted and created again, both
\* notifications have been handled, and all() yields a new entry for it
\* that has no text
C19_Witness ==
    /\ watcherEvents = << >>
    /\ nfs = 2
    /\ Len(entryObjs) = 2
    /\ entryObjs[1].text \in {"a", "b"}
    /\ allMap[1] = 2
    /\ 1 \in AllYields
    /\ entryObjs[2].text = "undefined"

====
